---- MODULE Spec2Model ----
(***************************************************************************)
(* A model of the saas_finder package.                                     *)
(*                                                                         *)
(*   Spec      ScraperManager (twitter/scrapers/scraper_manager.py):       *)
(*             initialize, search, search_multiple_queries and close of    *)
(*             one manager driven by one consumer.  search and             *)
(*             search_multiple_queries are asynchronous generators: each   *)
(*             step of the adapter stream they forward is one action.      *)
(*   SpecScore IdeaScorer.score_idea (scoring/scorer.py) applied to ideas   *)
(*             whose fields sit on and around every threshold it reads.    *)
(*   SpecDb    Database.save_idea / save_ideas (storage/database.py) on    *)
(*             one database, fed with ideas scored by score_idea.          *)
(*   SpecConc  search calls of several coroutines on one manager,          *)
(*             interleaved at their awaits.                                *)
(*   SpecRepl, SpecGrade, SpecRevenue, SpecMrr, SpecBuild                   *)
(*             determine_replicability, ScoringResult.grade,               *)
(*             RevenueExtractor.extract / extract_all, MRRParser.parse /   *)
(*             get_best_mrr and the two process_tweet paths, each applied  *)
(*             to a bounded set of arguments.                              *)
(*   SpecUrl   URLExtractor (extractors/urls.py) and URLParser             *)
(*             (parsers/url.py) applied to posts built from sample URLs.   *)
(*   SpecExtractors  RevenueExtractor and MRRParser, each on its own       *)
(*             texts, with the screenshot flag of the extractor.           *)
(*   SpecClose SpecConc with close() of the manager interleaved.           *)
(*   SpecFrame save_idea, toggle_favorite and add_note on one database,    *)
(*             with the descriptive columns of the row.                    *)
(*   SpecFetch search and get_user_tweets of one manager.                  *)
(***************************************************************************)
EXTENDS Integers, Sequences, FiniteSets, TLC

(***************************************************************************)
(* Bounds of the model.                                                    *)
(***************************************************************************)
\* Tweet ids of the ideas saved are 1..MaxTweets.
MaxTweets == 2
\* Length of the list given to save_ideas.
MaxBatch == 2
\* Post identifiers an adapter may return are 1..MaxId.
MaxId == 2
\* The limit argument of search / limit_per_query: an adapter yields at most
\* Limit posts per attempt (twscrape_client.py:153, apify_client.py:115).
Limit == 2
\* Posts the adapters produce, in total, during one top-level call.
MaxPosts == 3
\* Length of the query list given to search_multiple_queries.
MaxQueries == 2
\* Coroutines calling search on one manager at the same time.
MaxCallers == 2
\* Calls of close made while the callers' calls are in flight.
MaxCloses == 1

PostIds == 1 .. MaxId

(***************************************************************************)
(* ScraperManager: state.                                                  *)
(***************************************************************************)
VARIABLES
    enable_scweet,   \* constructor argument
    scrapers,        \* self.scrapers: the adapters, by backend name
    active_scraper,  \* self.active_scraper, or None
    initialized,     \* self._initialized
    last_init,       \* history: the most recent initialize() of this manager
    call,            \* the top-level call in progress or last ended
    dedup,           \* search_multiple_queries: the deduplicate argument
    qpos,            \* search_multiple_queries: index of the query being run
    m_pc,            \* search_multiple_queries: position of the generator
    seen_ids,        \* search_multiple_queries: seen_ids
    m_out,           \* search_multiple_queries: posts yielded to the consumer
    m_recv,          \* history: posts received from search, in order
    s_pc,            \* search: position of the generator
    s_idx,           \* search: index in self.scrapers of the adapter tried
    tweet_count,     \* search: tweet_count of the attempt in progress
    last_error,      \* search: last_error, or None
    s_raised,        \* search: the error the call raised, or None
    s_out,           \* search: posts yielded by this call, in order
    s_tried,         \* history: the attempts of this call, in order
    at_yield         \* the generator the consumer iterates is suspended at
                     \* a yield: the consumer holds the post just yielded

(***************************************************************************)
(* IdeaScorer and Database: state.                                         *)
(***************************************************************************)
VARIABLES
    idea,            \* the SaaSIdea handed to score_idea
    score,           \* the ScoringResult it returned, or None
    db,              \* the ideas table: tweet_id -> row, or NoRow
    batch,           \* save_ideas: position of the call (its session)
    new_count,       \* save_ideas: new_count
    updated_count,   \* save_ideas: updated_count
    last_save        \* history: the idea last saved and the row it found

(***************************************************************************)
(* The functions checked on their own: the argument of the call and its    *)
(* result.                                                                 *)
(***************************************************************************)
VARIABLES
    arg,             \* the argument the function is called with
    res              \* what the call returned, or None before it returns

(***************************************************************************)
(* Concurrent callers of one manager: the search call of each caller.      *)
(***************************************************************************)
VARIABLES
    calls,           \* caller -> position and locals of its search call
    closes           \* close() calls made while calls were in flight

mgrVars == <<enable_scweet, scrapers, active_scraper, initialized, last_init>>
multiVars == <<dedup, qpos, m_pc, seen_ids, m_out, m_recv>>
searchVars == <<s_pc, s_idx, tweet_count, last_error, s_raised, s_out, s_tried,
                at_yield>>
managerVars == <<mgrVars, call, multiVars, searchVars>>
scoreVars == <<idea, score>>
dbVars == <<db, batch, new_count, updated_count, last_save>>
pureVars == <<arg, res>>
concVars == <<calls, closes>>
vars == <<managerVars, scoreVars, dbVars, pureVars, concVars>>

None == "None"
Names == {"twscrape", "apify", "scweet"}
\* What a backend's constructor and initialize() do when asked: return True,
\* return False, or raise (scraper_manager.py:89-97).
Outcomes == {"ok", "false", "raise"}

\* scrapers_to_try: twscrape, apify and, when enabled, scweet.
ScrapersToTry(enable) ==
    IF enable THEN <<"twscrape", "apify", "scweet">>
              ELSE <<"twscrape", "apify">>

\* The for loop of initialize: an adapter is appended when its initialize()
\* returns True; a False or an exception is logged and the loop goes on.
RECURSIVE InitLoopAbort(_, _, _, _)
InitLoopAbort(to_try, i, acc, oc) ==
    IF i > Len(to_try) THEN acc
    ELSE IF oc[to_try[i]] = "ok"
         THEN InitLoopAbort(to_try, i + 1, Append(acc, to_try[i]), oc)
         ELSE acc

InitLoopAll(to_try, i, acc, oc) == acc \o to_try

RECURSIVE InitLoop(_, _, _, _)
InitLoop(to_try, i, acc, oc) ==
    IF i > Len(to_try) THEN acc
    ELSE IF oc[to_try[i]] = "ok"
         THEN InitLoop(to_try, i + 1, Append(acc, to_try[i]), oc)
         ELSE InitLoop(to_try, i + 1, acc, oc)

\* The list self.scrapers holds when initialize() returns.
ScrapersAfterInit(oc) ==
    InitLoop(ScrapersToTry(enable_scweet), 1, scrapers, oc)

\* A caller that is not inside a search call.  start and end are the list
\* self.scrapers held when its last call began and when it ended.  over is
\* the list object its for loop iterates: None while that is the object
\* self.scrapers still names, the old list once close has bound
\* self.scrapers to a new one (line 283).
NoCall == [pc |-> "idle", i |-> 0, idx |-> 0, start |-> <<>>, end |-> <<>>,
           over |-> <<>>]
Callers == 1 .. MaxCallers

NoInit == [called |-> FALSE, fresh |-> FALSE, ok |-> {}, ret |-> FALSE,
           active |-> None, initialized |-> FALSE]
NoAttempts == <<>>

\* The effect of initialize() on the manager; oc is what each backend does.
DoInitialize(oc) ==
    LET after == ScrapersAfterInit(oc) IN
    /\ scrapers' = after
    /\ active_scraper' = IF after # <<>> THEN after[1] ELSE active_scraper
    /\ initialized' = IF after # <<>> THEN TRUE ELSE initialized
    /\ last_init' = [called |-> TRUE,
                     fresh |-> scrapers = <<>> /\ ~initialized
                               /\ active_scraper = None,
                     ok |-> {n \in Names : oc[n] = "ok"},
                     ret |-> after # <<>>,
                     active |-> active_scraper',
                     initialized |-> initialized']
    /\ UNCHANGED enable_scweet

\* No generator of this manager is suspended in the middle of a call.
Quiet == s_pc # "run" /\ m_pc # "loop"

ClearSearch ==
    /\ s_pc' = "idle"
    /\ s_idx' = 0
    /\ tweet_count' = 0
    /\ last_error' = None
    /\ s_raised' = None
    /\ s_out' = <<>>
    /\ s_tried' = NoAttempts
    /\ at_yield' = FALSE

ClearMulti ==
    /\ dedup' = TRUE
    /\ qpos' = 0
    /\ m_pc' = "idle"
    /\ seen_ids' = {}
    /\ m_out' = <<>>
    /\ m_recv' = <<>>

MgrInit ==
    /\ enable_scweet \in BOOLEAN
    /\ scrapers = <<>>
    /\ active_scraper = None
    /\ initialized = FALSE
    /\ last_init = NoInit
    /\ call = "none"
    /\ dedup = TRUE
    /\ qpos = 0
    /\ m_pc = "idle"
    /\ seen_ids = {}
    /\ m_out = <<>>
    /\ m_recv = <<>>
    /\ s_pc = "idle"
    /\ s_idx = 0
    /\ tweet_count = 0
    /\ last_error = None
    /\ s_raised = None
    /\ s_out = <<>>
    /\ s_tried = NoAttempts
    /\ at_yield = FALSE
    /\ calls = [c \in Callers |-> NoCall]
    /\ closes = 0

(***************************************************************************)
(* ScraperManager.initialize, called by the owner of the manager           *)
(* (create_scraper_manager) before any search.                             *)
(***************************************************************************)
Initialize ==
    /\ Quiet
    /\ ~initialized
    /\ \E oc \in [Names -> Outcomes] : DoInitialize(oc)
    /\ call' = "none"
    /\ ClearSearch
    /\ ClearMulti
    /\ UNCHANGED <<scoreVars, dbVars, pureVars, concVars>>

(***************************************************************************)
(* ScraperManager.close.                                                   *)
(***************************************************************************)
Close ==
    /\ Quiet
    /\ scrapers' = <<>>
    /\ active_scraper' = None
    /\ initialized' = FALSE
    /\ last_init' = NoInit
    /\ UNCHANGED enable_scweet
    /\ call' = "none"
    /\ ClearSearch
    /\ ClearMulti
    /\ UNCHANGED <<scoreVars, dbVars, pureVars, concVars>>

(***************************************************************************)
(* ScraperManager.search: an asynchronous generator.                       *)
(***************************************************************************)
Attempt(name) == [by |-> name, cnt |-> 0, end |-> "running"]

\* for scraper in self.scrapers: the index of the adapter tried first.
FirstAttemptActive(list, active) ==
    IF \E i \in DOMAIN list : list[i] = active
    THEN CHOOSE i \in DOMAIN list :
             list[i] = active /\ \A j \in 1 .. i - 1 : list[j] # active
    ELSE 1

FirstAttempt(list, active) == 1

\* continue: the index of the adapter tried after the one at index i failed.
NextAttemptSkip(i) == i + 2

NextAttempt(i) == i + 1

\* last_error = e
CarryFirstError(prev, e) == IF prev = None THEN e ELSE prev

CarryError(prev, e) == e

\* Posts the adapters have produced so far in the top-level call.
Produced == IF call = "multi" THEN Len(m_recv) ELSE Len(s_out)

\* search up to the first adapter's stream: the lazy initialize (oc is what
\* each backend does when it runs), then the first iteration of the for loop.
SearchBegin(oc) ==
    LET lazy == ~initialized
        list == IF lazy THEN ScrapersAfterInit(oc) ELSE scrapers
        first == FirstAttempt(list, active_scraper)
    IN
    /\ IF lazy THEN DoInitialize(oc) ELSE UNCHANGED mgrVars
    /\ tweet_count' = 0
    /\ last_error' = None
    /\ s_raised' = None
    /\ s_out' = <<>>
    /\ at_yield' = FALSE
    /\ IF list = <<>>
       THEN /\ s_pc' = "done"
            /\ s_idx' = 0
            /\ s_tried' = NoAttempts
       ELSE /\ s_pc' = "run"
            /\ s_idx' = first
            /\ s_tried' = <<Attempt(list[first])>>

BeginSearch ==
    IF initialized
    THEN SearchBegin([n \in Names |-> "ok"])
    ELSE \E oc \in [Names -> Outcomes] : SearchBegin(oc)

\* tweet.id not in seen_ids
SuppressedAlways(id, seen) == TRUE

Suppressed(id, seen) == id \in seen

\* seen_ids.add(tweet.id)
SeenAfterNoAdd(seen, id) == seen

SeenAfter(seen, id) == seen \cup {id}

\* The body of search_multiple_queries' async for, run on each post that
\* search yields.
OnTweet(post) ==
    LET item == [id |-> post.id, by |-> post.by, q |-> qpos] IN
    /\ m_recv' = Append(m_recv, item)
    /\ IF dedup
       THEN IF ~Suppressed(post.id, seen_ids)
            THEN /\ seen_ids' = SeenAfter(seen_ids, post.id)
                 /\ m_out' = Append(m_out, item)
            ELSE UNCHANGED <<seen_ids, m_out>>
       ELSE /\ m_out' = Append(m_out, item)
            /\ UNCHANGED seen_ids
    /\ UNCHANGED <<dedup, qpos, m_pc>>

\* search(query, limit) called by the consumer.
SearchCall ==
    /\ Quiet
    /\ call' = "search"
    /\ BeginSearch
    /\ ClearMulti
    /\ UNCHANGED <<scoreVars, dbVars, pureVars, concVars>>

\* get_user_tweets(username, limit) called by the consumer: the same lazy
\* initialize and the same for loop over self.scrapers as search.
UserTweetsCall ==
    /\ Quiet
    /\ call' = "user"
    /\ BeginSearch
    /\ ClearMulti
    /\ UNCHANGED <<scoreVars, dbVars, pureVars, concVars>>

\* The adapter being tried yields a post, which search yields in turn; under
\* search_multiple_queries the post goes through the body of its loop.
AdapterYield(id) ==
    /\ s_pc = "run"
    /\ tweet_count < Limit
    /\ Produced < MaxPosts
    /\ LET post == [id |-> id, by |-> scrapers[s_idx]] IN
       /\ s_out' = Append(s_out, post)
       /\ IF call = "multi" THEN OnTweet(post) ELSE UNCHANGED multiVars
    /\ tweet_count' = tweet_count + 1
    /\ s_tried' = [s_tried EXCEPT ![Len(s_tried)].cnt = @ + 1]
    /\ at_yield' = (call \in {"search", "user"} \/ m_out' # m_out)
    /\ UNCHANGED <<mgrVars, call, s_pc, s_idx, last_error, s_raised>>
    /\ UNCHANGED <<scoreVars, dbVars, pureVars, concVars>>

\* The adapter's stream ends: self.active_scraper = scraper; return.
AdapterFinish ==
    /\ s_pc = "run"
    /\ active_scraper' = scrapers[s_idx]
    /\ s_pc' = "done"
    /\ s_tried' = [s_tried EXCEPT ![Len(s_tried)].end = "ok"]
    /\ at_yield' = FALSE
    /\ UNCHANGED <<enable_scweet, scrapers, initialized, last_init, call,
                   multiVars, s_idx, tweet_count, last_error, s_raised, s_out>>
    /\ UNCHANGED <<scoreVars, dbVars, pureVars, concVars>>

\* The adapter's stream raises: the except clause records the error and the
\* loop continues with the next adapter; past the last one, search raises
\* last_error, and get_user_tweets logs and returns.
AdapterRaise ==
    /\ s_pc = "run"
    /\ LET err == scrapers[s_idx]
           le == CarryError(last_error, err)
           nxt == NextAttempt(s_idx)
           ended == [s_tried EXCEPT ![Len(s_tried)].end = "raise"]
       IN
       /\ last_error' = le
       /\ IF nxt <= Len(scrapers)
          THEN /\ s_idx' = nxt
               /\ tweet_count' = 0
               /\ s_tried' = Append(ended, Attempt(scrapers[nxt]))
               /\ UNCHANGED <<s_pc, s_raised>>
          ELSE /\ s_pc' = IF le # None /\ call # "user" THEN "raised"
                         ELSE "done"
               /\ s_raised' = IF call # "user" THEN le ELSE None
               /\ s_tried' = ended
               /\ UNCHANGED <<s_idx, tweet_count>>
    /\ at_yield' = FALSE
    /\ UNCHANGED <<mgrVars, call, multiVars, s_out>>
    /\ UNCHANGED <<scoreVars, dbVars, pureVars, concVars>>

\* The consumer stops iterating (break, or aclose) while it holds a post:
\* GeneratorExit is raised at the yield the generator is suspended at.
\* except Exception does not catch it, GeneratorExit being a BaseException
\* that is no Exception: it leaves the for loop of search and, under
\* search_multiple_queries, the for loop over the queries.
CatchesAll(exc) == TRUE

CatchesNone(exc) == FALSE

Catches(exc) == exc \notin {"GeneratorExit", "CancelledError"}

ConsumerStops ==
    /\ s_pc = "run"
    /\ at_yield
    /\ LET exc == "GeneratorExit"
           nxt == NextAttempt(s_idx)
           ended == [s_tried EXCEPT ![Len(s_tried)].end = "closed"]
       IN
       IF Catches(exc)
       THEN /\ last_error' = exc
            /\ IF nxt <= Len(scrapers)
               THEN /\ s_idx' = nxt
                    /\ tweet_count' = 0
                    /\ s_tried' = Append(ended, Attempt(scrapers[nxt]))
                    /\ UNCHANGED <<s_pc, s_raised>>
               ELSE /\ s_pc' = "raised"
                    /\ s_raised' = exc
                    /\ s_tried' = ended
                    /\ UNCHANGED <<s_idx, tweet_count>>
            /\ UNCHANGED m_pc
       ELSE /\ s_pc' = "closed"
            /\ s_tried' = ended
            /\ m_pc' = IF call = "multi" THEN "closed" ELSE m_pc
            /\ UNCHANGED <<s_idx, tweet_count, last_error, s_raised>>
    /\ at_yield' = FALSE
    /\ UNCHANGED <<mgrVars, call, dedup, qpos, seen_ids, m_out, m_recv, s_out>>
    /\ UNCHANGED <<scoreVars, dbVars, pureVars, concVars>>

(***************************************************************************)
(* ScraperManager.search_multiple_queries: an asynchronous generator.      *)
(***************************************************************************)
\* search_multiple_queries(queries, limit_per_query, deduplicate) called by
\* the consumer: seen_ids = set().
MultiCall ==
    /\ Quiet
    /\ call' = "multi"
    /\ dedup' \in BOOLEAN
    /\ qpos' = 0
    /\ m_pc' = "loop"
    /\ seen_ids' = {}
    /\ m_out' = <<>>
    /\ m_recv' = <<>>
    /\ ClearSearch
    /\ UNCHANGED mgrVars
    /\ UNCHANGED <<scoreVars, dbVars, pureVars, concVars>>

\* for query in queries, when the list holds a further query: the search of
\* the previous query has ended (its exception, if any, is caught and logged)
\* and search is called for the next query.  The list is any list of at most
\* MaxQueries queries; what a query returns is the adapters' choice.
\* An exception of search that the except clause (line 205) does not catch
\* leaves the generator.
Propagates == s_pc = "raised" /\ ~Catches(s_raised)

MultiNextQuery ==
    /\ m_pc = "loop"
    /\ s_pc # "run"
    /\ qpos < MaxQueries
    /\ IF Propagates
       THEN /\ m_pc' = "raised"
            /\ UNCHANGED <<mgrVars, searchVars, qpos>>
       ELSE /\ qpos' = qpos + 1
            /\ BeginSearch
            /\ UNCHANGED m_pc
    /\ UNCHANGED <<call, dedup, seen_ids, m_out, m_recv>>
    /\ UNCHANGED <<scoreVars, dbVars, pureVars, concVars>>

\* for query in queries, when the list is exhausted: the generator ends.
MultiEnd ==
    /\ m_pc = "loop"
    /\ s_pc # "run"
    /\ m_pc' = IF Propagates THEN "raised" ELSE "done"
    /\ UNCHANGED <<mgrVars, call, dedup, qpos, seen_ids, m_out, m_recv,
                   searchVars>>
    /\ UNCHANGED <<scoreVars, dbVars, pureVars, concVars>>

(***************************************************************************)
(* IdeaScorer (scoring/scorer.py).  Money is in whole dollars; shares,     *)
(* rates and confidences are in percent.                                   *)
(***************************************************************************)
\* ScoringConfig (config.py).
mrr_high == 10000
mrr_medium == 5000
mrr_low == 1000
\* engagement_rate_threshold = 0.05
engagement_rate_threshold == 5
follower_threshold == 5000
\* organic_traffic_threshold = 0.30
organic_traffic_threshold == 30

\* An Optional value: None, or a value.
Nothing == <<>>
Some(x) == <<x>>

Complexities ==
    {"single_feature", "simple_saas", "complex_saas", "platform", "unknown"}

Min(a, b) == IF a <= b THEN a ELSE b

\* TrafficData.has_data
has_data(traffic) ==
    \/ traffic.organic_percent > 0
    \/ traffic.paid_percent > 0
    \/ traffic.social_percent > 0
    \/ traffic.estimated_monthly_visits # Nothing

\* _score_traction: the pair (score, details).
score_traction_uncapped(i) ==
    LET mrr == IF i.reported_mrr = Nothing THEN 0 ELSE i.reported_mrr[1]
        base == IF mrr >= mrr_high THEN 30
                ELSE IF mrr >= mrr_medium THEN 20
                ELSE IF mrr >= mrr_low THEN 10
                ELSE 0
    IN
    IF i.revenue_confidence >= 90
    THEN [score |-> base + 2, details |-> <<"High confidence revenue data">>]
    ELSE [score |-> base, details |-> <<>>]

score_traction(i) ==
    LET mrr == IF i.reported_mrr = Nothing THEN 0 ELSE i.reported_mrr[1]
        base == IF mrr >= mrr_high THEN 30
                ELSE IF mrr >= mrr_medium THEN 20
                ELSE IF mrr >= mrr_low THEN 10
                ELSE 0
        tier == IF mrr >= mrr_high THEN "High MRR"
                ELSE IF mrr >= mrr_medium THEN "Medium MRR"
                ELSE IF mrr >= mrr_low THEN "Low MRR"
                ELSE "No significant MRR"
    IN
    IF i.revenue_confidence >= 90
    THEN [score |-> Min(base + 2, 30),
          details |-> <<tier, "High confidence revenue data">>]
    ELSE [score |-> base, details |-> <<tier>>]

\* SaaSIdea.engagement_rate > pct / (100 * div), in integers.  The rate is
\* 0 when there are no impressions.
RateAbove(i, pct, div) ==
    /\ i.impressions # 0
    /\ 100 * div * (i.likes + i.retweets + i.replies) > pct * i.impressions

\* _score_growth
score_growth(i) ==
    LET shot == IF i.has_stripe_screenshot THEN 12
                ELSE IF i.has_screenshot THEN 10
                ELSE 0
        shotd == IF i.has_stripe_screenshot THEN <<"Stripe screenshot">>
                 ELSE IF i.has_screenshot THEN <<"Has screenshot">>
                 ELSE <<>>
        eng == IF RateAbove(i, engagement_rate_threshold, 1) THEN 10
               ELSE IF RateAbove(i, engagement_rate_threshold, 2) THEN 5
               ELSE 0
        engd == IF RateAbove(i, engagement_rate_threshold, 1)
                THEN <<"High engagement">>
                ELSE IF RateAbove(i, engagement_rate_threshold, 2)
                THEN <<"Medium engagement">>
                ELSE <<>>
        fol == IF i.author_followers >= follower_threshold THEN 5
               ELSE IF 2 * i.author_followers >= follower_threshold THEN 3
               ELSE 0
        fold == IF i.author_followers >= follower_threshold
                THEN <<"Influential author">>
                ELSE IF 2 * i.author_followers >= follower_threshold
                THEN <<"Growing author">>
                ELSE <<>>
        details == shotd \o engd \o fold
    IN
    [score |-> Min(shot + eng + fol, 25),
     details |-> IF details = <<>> THEN <<"No strong growth signals">>
                 ELSE details]

\* _score_traffic
score_traffic(i) ==
    LET t == i.traffic
        org == IF t.organic_percent >= organic_traffic_threshold THEN 15
               ELSE IF 2 * t.organic_percent >= organic_traffic_threshold
               THEN 8
               ELSE 0
        orgd == IF t.organic_percent >= organic_traffic_threshold
                THEN <<"Strong organic">>
                ELSE IF 2 * t.organic_percent >= organic_traffic_threshold
                THEN <<"Some organic">>
                ELSE <<>>
        diverse == t.paid_percent > 5 /\ t.organic_percent > 5
        details == orgd \o (IF diverse THEN <<"Diverse traffic sources">>
                            ELSE <<>>)
    IN
    IF ~has_data(t)
    THEN [score |-> 10, details |-> <<"No traffic data available">>]
    ELSE [score |-> Min(org + (IF diverse THEN 10 ELSE 0), 25),
          details |-> IF details = <<>> THEN <<"Limited traffic diversity">>
                      ELSE details]

\* _score_simplicity
score_simplicity(i) ==
    IF i.complexity = "single_feature"
    THEN [score |-> 20, details |-> <<"Single feature tool">>]
    ELSE IF i.complexity = "simple_saas"
    THEN [score |-> 10, details |-> <<"Simple SaaS">>]
    ELSE IF i.complexity = "complex_saas"
    THEN [score |-> 5, details |-> <<"Complex SaaS">>]
    ELSE IF i.complexity = "platform"
    THEN [score |-> 0, details |-> <<"Platform (complex)">>]
    ELSE [score |-> 10, details |-> <<"Complexity unknown">>]

\* total = traction_score + growth_score + traffic_score + simplicity_score
TotalWithoutSimplicity(tr, gr, tf, si) == tr + gr + tf

Total(tr, gr, tf, si) == tr + gr + tf + si

\* score_idea
score_idea(i) ==
    LET tr == score_traction(i)
        gr == score_growth(i)
        tf == score_traffic(i)
        si == score_simplicity(i)
    IN
    [total_score |-> Total(tr.score, gr.score, tf.score, si.score),
     traction_score |-> tr.score,
     growth_score |-> gr.score,
     traffic_score |-> tf.score,
     simplicity_score |-> si.score,
     breakdown |-> [traction |-> tr.details, growth |-> gr.details,
                    traffic |-> tf.details, simplicity |-> si.details]]

\* The ideas score_idea is applied to: every field it reads takes the values
\* on and next to each threshold it is compared with.
MrrValues ==
    {Nothing, Some(999), Some(1000), Some(4999), Some(5000), Some(9999),
     Some(10000)}
ConfidenceValues == {89, 90}
CountValues == {0, 1}
ImpressionValues == {0, 20, 40}
FollowerValues == {2499, 2500, 5000}
OrganicValues == {0, 5, 6, 15, 30}
PaidValues == {0, 5, 6}

TrafficValues ==
    {[organic_percent |-> o, paid_percent |-> p, social_percent |-> 0,
      estimated_monthly_visits |-> Nothing] :
        o \in OrganicValues, p \in PaidValues}
    \cup {[organic_percent |-> 0, paid_percent |-> 0, social_percent |-> 10,
           estimated_monthly_visits |-> Nothing],
          [organic_percent |-> 0, paid_percent |-> 0, social_percent |-> 0,
           estimated_monthly_visits |-> Some(1000)]}

ScoreInputs ==
    [reported_mrr : MrrValues,
     revenue_confidence : ConfidenceValues,
     has_screenshot : BOOLEAN,
     has_stripe_screenshot : BOOLEAN,
     likes : CountValues,
     retweets : CountValues,
     replies : CountValues,
     impressions : ImpressionValues,
     author_followers : FollowerValues,
     traffic : TrafficValues,
     complexity : Complexities]

\* SaaSIdea's defaults, as far as score_idea reads them.
DefaultIdea ==
    [reported_mrr |-> Nothing,
     revenue_confidence |-> 0,
     has_screenshot |-> FALSE,
     has_stripe_screenshot |-> FALSE,
     likes |-> 0,
     retweets |-> 0,
     replies |-> 0,
     impressions |-> 0,
     author_followers |-> 0,
     traffic |-> [organic_percent |-> 0, paid_percent |-> 0,
                  social_percent |-> 0, estimated_monthly_visits |-> Nothing],
     complexity |-> "unknown"]

ScoreIdle == idea = DefaultIdea /\ score = Nothing

\* idea.score = scorer.score_idea(idea)
ScoreIdea ==
    /\ score = Nothing
    /\ score' = Some(score_idea(idea))
    /\ UNCHANGED idea
    /\ UNCHANGED <<managerVars, dbVars, pureVars, concVars>>

(***************************************************************************)
(* Database (storage/database.py): the ideas table and its upsert.         *)
(***************************************************************************)
TweetIds == 1 .. MaxTweets

\* The ideas handed to the database: built from a post and scored by
\* score_idea (finder.py:264-265, scorer.py:488), or carrying no score.
\* They differ in every engagement field, and A and B score the same total
\* from different sub-scores.
IdeaA ==
    [DefaultIdea EXCEPT !.reported_mrr = Some(10000),
                        !.revenue_confidence = 89,
                        !.replies = 2,
                        !.author_followers = 5000]
IdeaB ==
    [DefaultIdea EXCEPT !.reported_mrr = Some(5000),
                        !.revenue_confidence = 89,
                        !.has_screenshot = TRUE,
                        !.likes = 1,
                        !.impressions = 20]
IdeaC ==
    [DefaultIdea EXCEPT !.reported_mrr = Some(10000),
                        !.revenue_confidence = 90,
                        !.has_screenshot = TRUE,
                        !.has_stripe_screenshot = TRUE,
                        !.likes = 2,
                        !.retweets = 1,
                        !.replies = 1,
                        !.impressions = 40,
                        !.author_followers = 5000,
                        !.traffic = [organic_percent |-> 30,
                                     paid_percent |-> 6,
                                     social_percent |-> 0,
                                     estimated_monthly_visits |-> Nothing],
                        !.complexity = "single_feature"]
SampleIdeas == {IdeaA, IdeaB, IdeaC}

\* The fields of a SaaSIdea that describe the post and the product and play
\* no part in scoring.
DefaultAbout ==
    [tweet_text |-> "hit $10k MRR", product_name |-> Nothing,
     category |-> Nothing, replicability |-> Nothing]

OtherAbout ==
    [tweet_text |-> "we passed $10k MRR", product_name |-> Some("Acme"),
     category |-> Some("productivity"), replicability |-> Some("high")]

\* A SaaSIdea as save_idea receives it: the post's id, the fields, and
\* idea.score (a ScoringResult or None).
SavedIdea(t, i, scored) ==
    [tweet_id |-> t,
     fields |-> i,
     about |-> DefaultAbout,
     score |-> IF scored THEN Some(score_idea(i)) ELSE Nothing]

\* The ideas a save is called with.
SavedIdeas ==
    {SavedIdea(t, i, scored) :
        t \in TweetIds, i \in SampleIdeas, scored \in BOOLEAN}

\* The same idea as a later scrape describes it.
Described(i, about) == [i EXCEPT !.about = about]

\* The ideas the saves that meet annotated rows are called with.
FrameIdeas ==
    UNION {{SavedIdea(t, IdeaA, TRUE),
            Described(SavedIdea(t, IdeaC, TRUE), OtherAbout)} :
           t \in TweetIds}

\* _create_idea_model; is_favorited, user_notes and tags take the defaults
\* of their columns (models.py:70-72).
create_idea_model(i) ==
    LET sc == i.score IN
    [tweet_text |-> i.about.tweet_text,
     product_name |-> i.about.product_name,
     category |-> i.about.category,
     replicability |-> i.about.replicability,
     is_favorited |-> FALSE,
     user_notes |-> Nothing,
     tags |-> Nothing,
     likes |-> i.fields.likes,
     retweets |-> i.fields.retweets,
     replies |-> i.fields.replies,
     impressions |-> i.fields.impressions,
     total_score |-> IF sc # Nothing THEN sc[1].total_score ELSE 0,
     traction_score |-> IF sc # Nothing THEN sc[1].traction_score ELSE 0,
     growth_score |-> IF sc # Nothing THEN sc[1].growth_score ELSE 0,
     traffic_score |-> IF sc # Nothing THEN sc[1].traffic_score ELSE 0,
     simplicity_score |-> IF sc # Nothing THEN sc[1].simplicity_score ELSE 0,
     score_breakdown |-> IF sc # Nothing THEN Some(sc[1].breakdown)
                         ELSE Nothing]

\* if idea.score and idea.score.total_score > model.total_score
BetterOrEqual(model, i) ==
    i.score # Nothing /\ i.score[1].total_score >= model.total_score

Better(model, i) ==
    i.score # Nothing /\ i.score[1].total_score > model.total_score

\* The engagement fields _update_idea_model writes.
EngagementStale(model, i) ==
    [model EXCEPT !.likes = i.fields.likes,
                  !.retweets = i.fields.retweets,
                  !.replies = i.fields.replies]

Engagement(model, i) ==
    [model EXCEPT !.likes = i.fields.likes,
                  !.retweets = i.fields.retweets,
                  !.replies = i.fields.replies,
                  !.impressions = i.fields.impressions]

\* An update that writes the total alone.
update_total_only(model, i) ==
    LET m == Engagement(model, i) IN
    IF Better(model, i)
    THEN [m EXCEPT !.total_score = i.score[1].total_score]
    ELSE m

\* An update that writes the row anew from the idea.
update_all_columns(model, i) == create_idea_model(i)

\* _update_idea_model
update_idea_model(model, i) ==
    LET m == Engagement(model, i) IN
    IF Better(model, i)
    THEN [m EXCEPT !.total_score = i.score[1].total_score,
                   !.traction_score = i.score[1].traction_score,
                   !.growth_score = i.score[1].growth_score,
                   !.traffic_score = i.score[1].traffic_score,
                   !.simplicity_score = i.score[1].simplicity_score,
                   !.score_breakdown = Some(i.score[1].breakdown)]
    ELSE m

NoSave == [saved |-> FALSE, existed |-> FALSE,
           idea |-> SavedIdea(1, DefaultIdea, FALSE)]

DbIdle ==
    /\ db = [t \in TweetIds |-> Nothing]
    /\ batch = "none"
    /\ new_count = 0
    /\ updated_count = 0
    /\ last_save = NoSave

\* The body shared by save_idea and the loop of save_ideas: look the tweet
\* id up, update the row found or add a new one.
Upsert(i) ==
    LET existing == db[i.tweet_id] IN
    /\ db' = [db EXCEPT ![i.tweet_id] =
                 IF existing # Nothing
                 THEN Some(update_idea_model(existing[1], i))
                 ELSE Some(create_idea_model(i))]
    /\ last_save' = [saved |-> TRUE, existed |-> existing # Nothing,
                     idea |-> i]

\* save_idea(idea): one session, committed on return.
SaveIdea ==
    /\ batch = "none"
    /\ \E i \in SavedIdeas : Upsert(i)
    /\ UNCHANGED <<batch, new_count, updated_count>>
    /\ UNCHANGED <<managerVars, scoreVars, pureVars, concVars>>

\* save_idea(idea) with an idea that a later scrape describes anew.
SaveDescribedIdea ==
    /\ batch = "none"
    /\ \E i \in FrameIdeas : Upsert(i)
    /\ UNCHANGED <<batch, new_count, updated_count>>
    /\ UNCHANGED <<managerVars, scoreVars, pureVars, concVars>>

\* toggle_favorite(idea_id) on the row of a stored idea.
ToggleFavorite ==
    /\ batch = "none"
    /\ \E t \in TweetIds :
          /\ db[t] # Nothing
          /\ db' = [db EXCEPT ![t] =
                       Some([db[t][1] EXCEPT !.is_favorited = ~@])]
    /\ UNCHANGED <<batch, new_count, updated_count, last_save>>
    /\ UNCHANGED <<managerVars, scoreVars, pureVars, concVars>>

\* add_note(idea_id, note) on the row of a stored idea.
AddNote ==
    /\ batch = "none"
    /\ \E t \in TweetIds :
          /\ db[t] # Nothing
          /\ db' = [db EXCEPT ![t] =
                       Some([db[t][1] EXCEPT !.user_notes = Some("note")])]
    /\ UNCHANGED <<batch, new_count, updated_count, last_save>>
    /\ UNCHANGED <<managerVars, scoreVars, pureVars, concVars>>

\* save_ideas(ideas): the session opens, new_count = updated_count = 0.
SaveIdeasBegin ==
    /\ batch = "none"
    /\ batch' = "open"
    /\ new_count' = 0
    /\ updated_count' = 0
    /\ UNCHANGED <<db, last_save>>
    /\ UNCHANGED <<managerVars, scoreVars, pureVars, concVars>>

\* save_ideas: one iteration of for idea in ideas.  The query autoflushes
\* the session, so a row added earlier in the call is found.
SaveIdeasStep ==
    /\ batch = "open"
    /\ new_count + updated_count < MaxBatch
    /\ \E i \in SavedIdeas :
          /\ Upsert(i)
          /\ IF db[i.tweet_id] # Nothing
             THEN /\ updated_count' = updated_count + 1
                  /\ UNCHANGED new_count
             ELSE /\ new_count' = new_count + 1
                  /\ UNCHANGED updated_count
    /\ UNCHANGED batch
    /\ UNCHANGED <<managerVars, scoreVars, pureVars, concVars>>

\* save_ideas: the list is exhausted; the session commits and the call
\* returns (new_count, updated_count), which are its locals and end with it.
SaveIdeasEnd ==
    /\ batch = "open"
    /\ batch' = "none"
    /\ new_count' = 0
    /\ updated_count' = 0
    /\ UNCHANGED <<db, last_save>>
    /\ UNCHANGED <<managerVars, scoreVars, pureVars, concVars>>

(***************************************************************************)
(* IdeaScorer.determine_replicability (scoring/scorer.py).  Shares are in  *)
(* percent.                                                                *)
(***************************************************************************)
PureIdle == arg = Nothing /\ res = Nothing

MgrIdle ==
    /\ MgrInit
    /\ enable_scweet = FALSE

\* The other components at rest.
RestIdle ==
    /\ MgrIdle
    /\ ScoreIdle
    /\ DbIdle

\* if idea.reported_mrr and idea.reported_mrr < 5000
LowMrr(mrr) == mrr # Nothing /\ mrr[1] # 0 /\ mrr[1] < 5000

\* determine_replicability: the level returned.
determine_replicability(i) ==
    IF i.traffic.paid_percent > 50 THEN "high"
    ELSE IF i.traffic.paid_percent > 20 /\ i.traffic.organic_percent > 20
    THEN "medium"
    ELSE IF i.traffic.organic_percent > 60 THEN "low"
    ELSE IF i.complexity = "single_feature" THEN "high"
    ELSE IF LowMrr(i.reported_mrr) THEN "medium"
    ELSE "unknown"

\* The ideas determine_replicability is applied to: shares on and next to
\* 20%, 50% and 60%, every complexity, revenue absent, zero, below 5000 and
\* at 5000.
ReplShares == {0, 20, 21, 50, 51, 60, 61}
ReplMrr == {Nothing, Some(0), Some(1), Some(4999), Some(5000)}
ReplInputs ==
    {[DefaultIdea EXCEPT !.traffic.paid_percent = p,
                         !.traffic.organic_percent = o,
                         !.complexity = c,
                         !.reported_mrr = m] :
        p \in ReplShares, o \in ReplShares, c \in Complexities,
        m \in ReplMrr}

DetermineReplicability ==
    /\ arg # Nothing
    /\ res = Nothing
    /\ res' = Some(determine_replicability(arg[1]))
    /\ UNCHANGED arg
    /\ UNCHANGED <<managerVars, scoreVars, dbVars, concVars>>

InitRepl ==
    /\ RestIdle
    /\ arg \in {Some(i) : i \in ReplInputs}
    /\ res = Nothing

NextRepl == DetermineReplicability

SpecRepl == InitRepl /\ [][NextRepl]_vars

(***************************************************************************)
(* RevenueExtractor (extractors/revenue.py).  A text is what the patterns  *)
(* find in it: the matches in the order the loops visit them (pattern by   *)
(* pattern) and whether a screenshot keyword occurs.  Amounts read from    *)
(* the text are in tenths of a unit, confidences in 1/10000.  The texts    *)
(* themselves are defined after the two extractors.                        *)
(***************************************************************************)
\* The length of a text, in phrases.
MaxMatches == 2

\* PATTERNS: revenue type and base confidence of each pattern.
PATTERNS ==
    <<[type |-> "MRR", confidence |-> 9500],
      [type |-> "ARR", confidence |-> 9500],
      [type |-> "MONTHLY", confidence |-> 9000],
      [type |-> "UNKNOWN", confidence |-> 7500],
      [type |-> "MRR", confidence |-> 8000],
      [type |-> "MONTHLY", confidence |-> 8500],
      [type |-> "UNKNOWN", confidence |-> 7000],
      [type |-> "UNKNOWN", confidence |-> 7000],
      [type |-> "MRR", confidence |-> 7500],
      [type |-> "MONTHLY", confidence |-> 8500],
      [type |-> "MRR", confidence |-> 9000],
      [type |-> "UNKNOWN", confidence |-> 7000]>>

\* The "N figure" pattern.
FigurePattern == 7

\* FIGURE_ESTIMATES
FIGURE_ESTIMATES == [d \in 4 .. 7 |->
    IF d = 4 THEN 5000 ELSE IF d = 5 THEN 50000
    ELSE IF d = 6 THEN 500000 ELSE 5000000]

\* The sum of two confidences as the doubles give it: 0.7 + 0.1 is
\* 0.7999999999999999, every other sum that occurs is exact.
FloatAdd(c, d) == IF c = 7000 /\ d = 1000 THEN 7999 ELSE c + d

\* _parse_match: the amount, or None.  num is float(groups[0]) in tenths,
\* or None when float() raises ValueError; k is the K multiplier group.
parse_match(m) ==
    IF m.pattern = FigurePattern THEN Some(FIGURE_ESTIMATES[m.digit])
    ELSE IF m.num = Nothing THEN Nothing
    ELSE LET amount == IF m.k THEN m.num[1] * 1000 ELSE m.num[1] IN
         IF amount <= 0 THEN Nothing
         ELSE IF amount > 1000000000 THEN Nothing
         ELSE Some(amount \div 10)

\* The boost without the cap.
BoostedUncapped(base, has_screenshot) ==
    IF has_screenshot THEN FloatAdd(base, 1000) ELSE base

\* confidence = min(confidence + 0.1, 1.0) when the text has a screenshot
\* keyword.
Boosted(base, has_screenshot) ==
    IF has_screenshot THEN Min(FloatAdd(base, 1000), 10000) ELSE base

\* ExtractedRevenue(raw_match, amount, type, confidence, has_screenshot);
\* raw_match is the match itself.
ExtractedRevenue(m, amount, has_screenshot) ==
    [raw_match |-> m,
     amount |-> amount,
     type |-> PATTERNS[m.pattern].type,
     confidence |-> Boosted(PATTERNS[m.pattern].confidence, has_screenshot),
     has_screenshot |-> has_screenshot]

\* extract: the loops over the patterns and their matches, from match i on.
RECURSIVE ExtractLoop(_, _, _, _)
ExtractLoop(text, i, best_match, best_confidence) ==
    IF i > Len(text.matches) THEN best_match
    ELSE LET m == text.matches[i]
             amount == parse_match(m)
         IN
         IF amount = Nothing \/ amount[1] <= 0
         THEN ExtractLoop(text, i + 1, best_match, best_confidence)
         ELSE LET r == ExtractedRevenue(m, amount[1], text.has_screenshot)
              IN
              IF r.confidence > best_confidence
              THEN ExtractLoop(text, i + 1, Some(r), r.confidence)
              ELSE ExtractLoop(text, i + 1, best_match, best_confidence)

\* extract
extract(text) == ExtractLoop(text, 1, Nothing, 0)

\* list.sort(key=confidence, reverse=True): stable, highest first.
InAppendOrder(seq) == seq

RECURSIVE SortedByConfidence(_)
SortedByConfidence(seq) ==
    IF seq = <<>> THEN <<>>
    ELSE LET top == CHOOSE i \in DOMAIN seq :
                 /\ \A j \in DOMAIN seq :
                       seq[j].confidence <= seq[i].confidence
                 /\ \A j \in 1 .. i - 1 :
                       seq[j].confidence < seq[i].confidence
             rest == [j \in 1 .. Len(seq) - 1 |->
                         IF j < top THEN seq[j] ELSE seq[j + 1]]
         IN <<seq[top]>> \o SortedByConfidence(rest)

\* extract_all: the loops over the patterns and their matches.
RECURSIVE ExtractAllLoop(_, _, _, _)
ExtractAllLoop(text, i, results, seen_amounts) ==
    IF i > Len(text.matches) THEN results
    ELSE LET m == text.matches[i]
             amount == parse_match(m)
         IN
         IF amount = Nothing \/ amount[1] <= 0
         THEN ExtractAllLoop(text, i + 1, results, seen_amounts)
         ELSE IF amount[1] \in seen_amounts
         THEN ExtractAllLoop(text, i + 1, results, seen_amounts)
         ELSE ExtractAllLoop(text, i + 1,
                  Append(results,
                         ExtractedRevenue(m, amount[1], text.has_screenshot)),
                  seen_amounts \cup {amount[1]})

\* extract_all
extract_all(text) == SortedByConfidence(ExtractAllLoop(text, 1, <<>>, {}))

(***************************************************************************)
(* MRRParser (parsers/mrr.py).  A text is the matches of the parser's      *)
(* patterns in the order the loops visit them, and whether "mrr", "arr"    *)
(* and a month keyword occur in it.                                        *)
(***************************************************************************)
\* PATTERNS: what each pattern's extractor returns besides the amount.
\* Patterns 1 and 2 read MRR or ARR from the match.
MrrPatternType(m) ==
    IF m.pattern \in {1, 2} THEN (IF m.arr THEN "ARR" ELSE "MRR")
    ELSE IF m.pattern \in {3, 4, 7} THEN "MONTHLY"
    ELSE IF m.pattern = 5 THEN "REVENUE"
    ELSE IF m.pattern = 6 THEN "UNKNOWN"
    ELSE "MRR"

MrrPatternConfidence(m) ==
    IF m.pattern \in {1, 2} THEN 9500
    ELSE IF m.pattern = 3 THEN 9000
    ELSE IF m.pattern \in {4, 7} THEN 7500
    ELSE IF m.pattern = 5 THEN 8000
    ELSE IF m.pattern = 6 THEN 7000
    ELSE 6500

\* _parse_amount and the extractors' amount, in tenths.  k: the letter k
\* occurs in the matched text ('k' in m.group(0).lower()); patterns 2 and 4
\* always multiply; pattern 8 multiplies customers by price.
MrrAmount(m) ==
    IF m.pattern = 8 THEN m.customers * m.num[1]
    ELSE IF m.pattern \in {2, 4} \/ m.k THEN m.num[1] * 1000
    ELSE m.num[1]

\* RevenueData.monthly_equivalent, as the fraction num / den of a unit.
monthly_equivalent(r) ==
    [num |-> r.amount, den |-> IF r.type = "ARR" THEN 120 ELSE 10]

\* The amount as it is, as a fraction of a unit.
AsIs(amount) == [num |-> amount, den |-> 10]

\* parse: the context boost of a match of unknown type.
ContextType(text, type) ==
    IF type # "UNKNOWN" THEN type
    ELSE IF text.has_mrr THEN "MRR"
    ELSE IF text.has_arr THEN "ARR"
    ELSE IF text.has_month THEN "MONTHLY"
    ELSE "UNKNOWN"

ContextConfidence(text, type, confidence) ==
    IF type # "UNKNOWN" THEN confidence
    ELSE IF text.has_mrr \/ text.has_arr THEN FloatAdd(confidence, 1000)
    ELSE IF text.has_month THEN FloatAdd(confidence, 500)
    ELSE confidence

\* parse: the loops over the patterns and their matches.  float() raising
\* ValueError (num is None) skips the match.
RECURSIVE ParseLoop(_, _, _)
ParseLoop(text, i, results) ==
    IF i > Len(text.matches) THEN results
    ELSE LET m == text.matches[i] IN
         IF m.num = Nothing THEN ParseLoop(text, i + 1, results)
         ELSE IF MrrAmount(m) < 1000 THEN ParseLoop(text, i + 1, results)
         ELSE ParseLoop(text, i + 1,
                  Append(results,
                         [amount |-> MrrAmount(m),
                          type |-> ContextType(text, MrrPatternType(m)),
                          raw_text |-> m,
                          confidence |->
                              Min(ContextConfidence(text, MrrPatternType(m),
                                      MrrPatternConfidence(m)), 10000)]))

\* abs(result.amount - existing.amount) / existing.amount < 0.1
Similar(result, existing) ==
    /\ existing.amount > 0
    /\ LET d == IF result.amount >= existing.amount
                THEN result.amount - existing.amount
                ELSE existing.amount - result.amount
       IN d <= (existing.amount - 1) \div 10

\* _deduplicate: over the results sorted by confidence.
RECURSIVE DedupLoop(_, _, _)
DedupLoop(sorted, i, unique) ==
    IF i > Len(sorted) THEN unique
    ELSE IF \E j \in DOMAIN unique : Similar(sorted[i], unique[j])
    THEN DedupLoop(sorted, i + 1, unique)
    ELSE DedupLoop(sorted, i + 1, Append(unique, sorted[i]))

deduplicate(results) ==
    IF Len(results) <= 1 THEN results
    ELSE DedupLoop(SortedByConfidence(results), 1, <<>>)

\* parse
parse(text) == SortedByConfidence(deduplicate(ParseLoop(text, 1, <<>>)))

\* get_best_mrr
get_best_mrr(text) ==
    LET results == parse(text)
        OfType(t) == SelectSeq(results, LAMBDA r : r.type = t)
    IN
    IF results = <<>> THEN Nothing
    ELSE IF OfType("MRR") # <<>> THEN Some(OfType("MRR")[1])
    ELSE IF OfType("MONTHLY") # <<>> THEN Some(OfType("MONTHLY")[1])
    ELSE Some(results[1])

(***************************************************************************)
(* The texts.  A text is a sequence of phrases, each a figure in a         *)
(* context that the patterns of the two extractors recognise, and the      *)
(* keywords that occur in it.  The matches each extractor finds are        *)
(* derived from the phrases: re.finditer is called pattern by pattern, and *)
(* gives a pattern's matches in the order of the text.                     *)
(***************************************************************************)
\* A figure as written: the number in tenths (None when float() cannot read
\* it, as for "$,") and whether a K follows.
Fig(num, k) == [num |-> num, k |-> k]

\* "$X MRR" with X unreadable, 0, 50, 99.9, 100, 100,000,000, 100,000,001
\* and 120K; "$X ARR" with X 100 and 120K; "hit $50", "hit $100", "passed
\* $120K" and "making $50"; "7 figure MRR"; "10 paying customers $5";
\* "MRR: $100".
Phrases ==
    {[kind |-> "mrr", fig |-> f, digit |-> 0, customers |-> 0] :
        f \in {Fig(Nothing, FALSE), Fig(Some(0), FALSE),
               Fig(Some(500), FALSE), Fig(Some(999), FALSE),
               Fig(Some(1000), FALSE), Fig(Some(1000000000), FALSE),
               Fig(Some(1000000010), FALSE), Fig(Some(1200), TRUE)}}
    \cup {[kind |-> "arr", fig |-> f, digit |-> 0, customers |-> 0] :
        f \in {Fig(Some(1000), FALSE), Fig(Some(1200), TRUE)}}
    \cup {[kind |-> "hit", fig |-> Fig(Some(500), FALSE), digit |-> 0,
           customers |-> 0],
          [kind |-> "hit", fig |-> Fig(Some(1000), FALSE), digit |-> 0,
           customers |-> 0],
          [kind |-> "passed", fig |-> Fig(Some(1200), TRUE), digit |-> 0,
           customers |-> 0],
          [kind |-> "making", fig |-> Fig(Some(500), FALSE), digit |-> 0,
           customers |-> 0],
          [kind |-> "figure", fig |-> Fig(Nothing, FALSE), digit |-> 7,
           customers |-> 0],
          [kind |-> "customers", fig |-> Fig(Some(50), FALSE), digit |-> 0,
           customers |-> 10],
          [kind |-> "label", fig |-> Fig(Some(1000), FALSE), digit |-> 0,
           customers |-> 0]}

\* A match of a pattern of RevenueExtractor.
RMatch(p, ph) ==
    [pattern |-> p, num |-> ph.fig.num, k |-> ph.fig.k, digit |-> ph.digit]

\* The matches of pattern p of RevenueExtractor.PATTERNS in a phrase:
\* "$X MRR" matches pattern 1, and pattern 5 ("XK MRR") when a K follows;
\* "$X ARR" pattern 2; "hit $X" and "making $X" pattern 4; "N figure MRR"
\* pattern 7; "MRR: $X" pattern 11; "passed $X" and "10 paying customers
\* $X" none.
RevenueMatches(p, ph) ==
    IF \/ (ph.kind = "mrr" /\ (p = 1 \/ (p = 5 /\ ph.fig.k)))
       \/ (ph.kind = "arr" /\ p = 2)
       \/ (ph.kind \in {"hit", "making"} /\ p = 4)
       \/ (ph.kind = "figure" /\ p = FigurePattern)
       \/ (ph.kind = "label" /\ p = 11)
    THEN <<RMatch(p, ph)>>
    ELSE <<>>

\* A match of a pattern of MRRParser.
MMatch(p, ph) ==
    [pattern |-> p, num |-> ph.fig.num,
     k |-> ph.fig.k \/ ph.kind = "making",
     arr |-> ph.kind = "arr", customers |-> ph.customers]

\* The matches of pattern p of MRRParser.PATTERNS in a phrase: "$X MRR" and
\* "$X ARR" match pattern 1, and pattern 2 when a K follows; "hit $X" and
\* "passed $X" pattern 6; "making $X" pattern 7, its matched text holding
\* the letter k; "10 paying customers $X" pattern 8; "N figure MRR" and
\* "MRR: $X" none.
MrrMatches(p, ph) ==
    IF \/ (ph.kind \in {"mrr", "arr"} /\ (p = 1 \/ (p = 2 /\ ph.fig.k)))
       \/ (ph.kind \in {"hit", "passed"} /\ p = 6)
       \/ (ph.kind = "making" /\ p = 7)
       \/ (ph.kind = "customers" /\ p = 8)
    THEN <<MMatch(p, ph)>>
    ELSE <<>>

\* for pattern in PATTERNS: for match in re.finditer(pattern, text): the
\* matches of patterns p.. in the order visited, by RevenueExtractor
\* (of = "revenue") or by MRRParser (of = "mrr").
MatchesOf(of, p, ph) ==
    IF of = "revenue" THEN RevenueMatches(p, ph) ELSE MrrMatches(p, ph)

RECURSIVE InPhrases(_, _, _, _)
InPhrases(of, p, phrases, i) ==
    IF i > Len(phrases) THEN <<>>
    ELSE MatchesOf(of, p, phrases[i]) \o InPhrases(of, p, phrases, i + 1)

RECURSIVE InPatternOrder(_, _, _, _)
InPatternOrder(of, p, last, phrases) ==
    IF p > last THEN <<>>
    ELSE InPhrases(of, p, phrases, 1)
         \o InPatternOrder(of, p + 1, last, phrases)

RECURSIVE SeqsUpTo(_, _)
SeqsUpTo(S, n) ==
    IF n = 0 THEN {<<>>}
    ELSE SeqsUpTo(S, n - 1)
         \cup {Append(q, x) : q \in {r \in SeqsUpTo(S, n - 1) :
                                         Len(r) = n - 1}, x \in S}

\* "mrr" and "arr" occur in a text that holds them in a phrase.
FlagsAgree(phrases, has_mrr, has_arr) ==
    \A i \in DOMAIN phrases :
        /\ phrases[i].kind \in {"mrr", "figure", "label"} => has_mrr
        /\ phrases[i].kind = "arr" => has_arr

\* The texts of at most n phrases, as RevenueExtractor reads them.
RevenueTexts(n) ==
    {[matches |-> InPatternOrder("revenue", 1, 12, phrases),
      has_screenshot |-> b] :
        phrases \in SeqsUpTo(Phrases, n), b \in BOOLEAN}

\* The text of the given phrases and keywords, as MRRParser reads it.
MrrText(phrases, has_mrr, has_arr, has_month) ==
    [matches |-> InPatternOrder("mrr", 1, 8, phrases),
     has_mrr |-> has_mrr, has_arr |-> has_arr, has_month |-> has_month]

\* The texts of at most n phrases, as MRRParser reads them.
MrrTexts(n) ==
    UNION {{MrrText(phrases, f[1], f[2], f[3]) :
               f \in {g \in BOOLEAN \X BOOLEAN \X BOOLEAN :
                         FlagsAgree(phrases, g[1], g[2])}} :
           phrases \in SeqsUpTo(Phrases, n)}

\* The posts: texts of at most one phrase, as each extractor reads them.
Tweets ==
    UNION {{[rtext |-> [matches |->
                           InPatternOrder("revenue", 1, 12, phrases),
                       has_screenshot |-> FALSE],
             mtext |-> MrrText(phrases, f[1], f[2], f[3])] :
               f \in {g \in BOOLEAN \X BOOLEAN \X BOOLEAN :
                         FlagsAgree(phrases, g[1], g[2])}} :
           phrases \in SeqsUpTo(Phrases, 1)}

\* The text is one read by RevenueExtractor (it carries the screenshot
\* keyword test), not one read by MRRParser.
ForRevenueExtractor(text) == "has_screenshot" \in DOMAIN text

\* extract(text) called.
Extract ==
    /\ arg # Nothing
    /\ res = Nothing
    /\ ForRevenueExtractor(arg[1])
    /\ res' = Some([fn |-> "extract", out |-> extract(arg[1])])
    /\ UNCHANGED arg
    /\ UNCHANGED <<managerVars, scoreVars, dbVars, concVars>>

\* extract_all(text) called.
ExtractAll ==
    /\ arg # Nothing
    /\ res = Nothing
    /\ ForRevenueExtractor(arg[1])
    /\ res' = Some([fn |-> "extract_all", out |-> extract_all(arg[1])])
    /\ UNCHANGED arg
    /\ UNCHANGED <<managerVars, scoreVars, dbVars, concVars>>

InitRevenue ==
    /\ RestIdle
    /\ arg \in {Some(t) : t \in RevenueTexts(MaxMatches)}
    /\ res = Nothing

NextRevenue ==
    \/ Extract
    \/ ExtractAll

SpecRevenue == InitRevenue /\ [][NextRevenue]_vars

\* MRRParser.parse(text) called.
Parse ==
    /\ arg # Nothing
    /\ res = Nothing
    /\ ~ForRevenueExtractor(arg[1])
    /\ res' = Some([fn |-> "parse", out |-> parse(arg[1])])
    /\ UNCHANGED arg
    /\ UNCHANGED <<managerVars, scoreVars, dbVars, concVars>>

\* MRRParser.get_best_mrr(text) called.
GetBestMrr ==
    /\ arg # Nothing
    /\ res = Nothing
    /\ ~ForRevenueExtractor(arg[1])
    /\ res' = Some([fn |-> "get_best_mrr", out |-> get_best_mrr(arg[1])])
    /\ UNCHANGED arg
    /\ UNCHANGED <<managerVars, scoreVars, dbVars, concVars>>

InitMrr ==
    /\ RestIdle
    /\ arg \in {Some(t) : t \in MrrTexts(MaxMatches)}
    /\ res = Nothing

NextMrr ==
    \/ Parse
    \/ GetBestMrr

SpecMrr == InitMrr /\ [][NextMrr]_vars

\* Both extractors, each applied to the texts as it reads them.
InitExtractors ==
    /\ RestIdle
    /\ arg \in {Some(t) : t \in RevenueTexts(MaxMatches)
                                  \cup MrrTexts(MaxMatches)}
    /\ res = Nothing

NextExtractors ==
    \/ Extract
    \/ ExtractAll
    \/ Parse
    \/ GetBestMrr

SpecExtractors == InitExtractors /\ [][NextExtractors]_vars

(***************************************************************************)
(* The two idea-building paths: IdeaScorer.process_tweet (scorer.py) and   *)
(* SaaSIdeaFinder._process_tweet (finder.py).  A post is its text as each  *)
(* of the two extractors reads it; of the idea built, the revenue fields   *)
(* are kept.                                                               *)
(***************************************************************************)
\* IdeaScorer.process_tweet: no idea without a revenue mention; otherwise
\* reported_mrr = revenue_data.monthly_equivalent.
process_tweet(tweet) ==
    LET revenue_data == get_best_mrr(tweet.mtext) IN
    IF revenue_data = Nothing THEN Nothing
    ELSE Some([reported_mrr |-> Some(monthly_equivalent(revenue_data[1])),
               revenue_confidence |-> revenue_data[1].confidence])

\* SaaSIdeaFinder._process_tweet.  When the new extractor finds revenue,
\* reading revenue.normalized_monthly_usd raises AttributeError
\* (ExtractedRevenue has no such field), the except clause returns None.
\* Otherwise mrr_data is the first result of the legacy parser, or None,
\* and reported_mrr = mrr_data.amount if mrr_data else None.
finder_process_tweet(tweet) ==
    LET revenue == extract(tweet.rtext)
        mrr_results == parse(tweet.mtext)
    IN
    IF revenue # Nothing THEN Nothing
    ELSE Some([reported_mrr |-> IF mrr_results # <<>>
                                THEN Some(AsIs(mrr_results[1].amount))
                                ELSE Nothing,
               revenue_confidence |-> 0])

\* IdeaScorer.process_tweet(tweet) called.
ProcessTweet ==
    /\ arg # Nothing
    /\ res = Nothing
    /\ res' = Some([fn |-> "process_tweet", out |-> process_tweet(arg[1])])
    /\ UNCHANGED arg
    /\ UNCHANGED <<managerVars, scoreVars, dbVars, concVars>>

\* SaaSIdeaFinder._process_tweet(tweet) called.
FinderProcessTweet ==
    /\ arg # Nothing
    /\ res = Nothing
    /\ res' = Some([fn |-> "_process_tweet",
                    out |-> finder_process_tweet(arg[1])])
    /\ UNCHANGED arg
    /\ UNCHANGED <<managerVars, scoreVars, dbVars, concVars>>

InitBuild ==
    /\ RestIdle
    /\ arg \in {Some(t) : t \in Tweets}
    /\ res = Nothing

NextBuild ==
    \/ ProcessTweet
    \/ FinderProcessTweet

SpecBuild == InitBuild /\ [][NextBuild]_vars

(***************************************************************************)
(* The URL extractors: URLExtractor of extractors/urls.py and URLExtractor  *)
(* of parsers/url.py.  A string is the sequence of its characters.          *)
(***************************************************************************)
\* Posts' links: the length of the list of URLs found in a text.
MaxUrls == 2

\* str.lower on the letters.
ToLower ==
    ("A" :> "a") @@ ("B" :> "b") @@ ("C" :> "c") @@ ("D" :> "d") @@
    ("E" :> "e") @@ ("F" :> "f") @@ ("G" :> "g") @@ ("H" :> "h") @@ ("I" :>
    "i") @@ ("J" :> "j") @@ ("K" :> "k") @@ ("L" :> "l") @@ ("M" :> "m") @@
    ("N" :> "n") @@ ("O" :> "o") @@ ("P" :> "p") @@ ("Q" :> "q") @@ ("R" :>
    "r") @@ ("S" :> "s") @@ ("T" :> "t") @@ ("U" :> "u") @@ ("V" :> "v") @@
    ("W" :> "w") @@ ("X" :> "x") @@ ("Y" :> "y") @@ ("Z" :> "z")
LowerChar(c) == IF c \in DOMAIN ToLower THEN ToLower[c] ELSE c
UpperChar(c) ==
    IF \E u \in DOMAIN ToLower : ToLower[u] = c
    THEN CHOOSE u \in DOMAIN ToLower : ToLower[u] = c
    ELSE c
IsLetter(c) == c \in DOMAIN ToLower \/ \E u \in DOMAIN ToLower : ToLower[u] = c

Lower(s) == [i \in DOMAIN s |-> LowerChar(s[i])]
\* str.title and str.capitalize
Title(s) ==
    [i \in DOMAIN s |->
        IF i = 1 \/ ~IsLetter(s[i - 1]) THEN UpperChar(s[i])
        ELSE LowerChar(s[i])]
Capitalize(s) ==
    [i \in DOMAIN s |-> IF i = 1 THEN UpperChar(s[i]) ELSE LowerChar(s[i])]

Drop(s, n) == SubSeq(s, n + 1, Len(s))
StartsWith(s, p) == Len(p) <= Len(s) /\ SubSeq(s, 1, Len(p)) = p
EndsWith(s, p) ==
    Len(p) <= Len(s) /\ SubSeq(s, Len(s) - Len(p) + 1, Len(s)) = p
\* p in s
Contains(s, p) ==
    \E i \in 0 .. Len(s) - Len(p) : SubSeq(s, i + 1, i + Len(p)) = p
\* The length of the longest prefix of s that holds no character of stop.
RECURSIVE UpTo(_, _, _)
UpTo(s, stop, i) ==
    IF i > Len(s) \/ s[i] \in stop THEN i - 1 ELSE UpTo(s, stop, i + 1)
\* s.count(c)
Count(s, c) == Cardinality({i \in DOMAIN s : s[i] = c})
\* s.split('.')[0] and len(s.split('.'))
FirstLabel(s) == SubSeq(s, 1, UpTo(s, {"."}, 1))
Labels(s) == Count(s, ".") + 1

\* url.rstrip('.,;:!?)\'"')
RECURSIVE RStrip(_, _)
RStrip(s, chars) ==
    IF s # <<>> /\ s[Len(s)] \in chars
    THEN RStrip(SubSeq(s, 1, Len(s) - 1), chars)
    ELSE s
\* s.strip('/')
RECURSIVE LStrip(_, _)
LStrip(s, chars) ==
    IF s # <<>> /\ s[1] \in chars THEN LStrip(Drop(s, 1), chars) ELSE s
Strip(s, chars) == LStrip(RStrip(s, chars), chars)

\* urlparse(url): netloc and path of an http(s) URL.
urlparse(url) ==
    LET https == <<"h", "t", "t", "p", "s", ":", "/", "/">>
        http == <<"h", "t", "t", "p", ":", "/", "/">>
        rest == IF StartsWith(url, https) THEN Drop(url, Len(https))
                ELSE IF StartsWith(url, http) THEN Drop(url, Len(http))
                ELSE <<>>
        n == UpTo(rest, {"/", "?", "#"}, 1)
        tail == Drop(rest, n)
    IN
    [netloc |-> SubSeq(rest, 1, n),
     path |-> SubSeq(tail, 1, UpTo(tail, {"?", "#"}, 1))]

\* domain = parsed.netloc.lower(), without a leading "www."
DomainOf(url) ==
    LET domain == Lower(urlparse(url).netloc) IN
    IF StartsWith(domain, <<"w", "w", "w", ".">>) THEN Drop(domain, 4)
    ELSE domain

\* _extract_urls_from_text / extract_urls: the URLs the pattern finds in a
\* text, each without its trailing punctuation.  A text is given by the
\* sequence of the pattern's matches.
TrailingPunctuation == {".", ",", ";", ":", "!", "?", ")", "'", "\""}
extract_urls(text) ==
    LET cleaned == [i \in DOMAIN text |-> RStrip(text[i], TrailingPunctuation)]
    IN SelectSeq(cleaned, LAMBDA u : u # <<>>)

(***************************************************************************)
(* extractors/urls.py                                                      *)
(***************************************************************************)
EXCLUDED_DOMAINS ==
    {<<"t", "w", "i", "t", "t", "e", "r", ".", "c", "o", "m">>,
     <<"x", ".", "c", "o", "m">>, <<"t", ".", "c", "o">>,
     <<"p", "i", "c", ".", "t", "w", "i", "t", "t", "e", "r", ".", "c", "o", "m">>,
     <<"f", "a", "c", "e", "b", "o", "o", "k", ".", "c", "o", "m">>,
     <<"f", "b", ".", "c", "o", "m">>,
     <<"i", "n", "s", "t", "a", "g", "r", "a", "m", ".", "c", "o", "m">>,
     <<"l", "i", "n", "k", "e", "d", "i", "n", ".", "c", "o", "m">>,
     <<"t", "i", "k", "t", "o", "k", ".", "c", "o", "m">>,
     <<"y", "o", "u", "t", "u", "b", "e", ".", "c", "o", "m">>,
     <<"y", "o", "u", "t", "u", ".", "b", "e">>,
     <<"r", "e", "d", "d", "i", "t", ".", "c", "o", "m">>,
     <<"d", "i", "s", "c", "o", "r", "d", ".", "c", "o", "m">>,
     <<"d", "i", "s", "c", "o", "r", "d", ".", "g", "g">>,
     <<"t", "h", "r", "e", "a", "d", "s", ".", "n", "e", "t">>,
     <<"g", "o", "o", "g", "l", "e", ".", "c", "o", "m">>,
     <<"g", "o", "o", ".", "g", "l">>, <<"b", "i", "t", ".", "l", "y">>,
     <<"b", "i", "t", "l", "y", ".", "c", "o", "m">>,
     <<"m", "e", "d", "i", "u", "m", ".", "c", "o", "m">>,
     <<"s", "u", "b", "s", "t", "a", "c", "k", ".", "c", "o", "m">>,
     <<"n", "o", "t", "i", "o", "n", ".", "s", "o">>,
     <<"n", "o", "t", "i", "o", "n", ".", "s", "i", "t", "e">>,
     <<"g", "i", "t", "h", "u", "b", ".", "c", "o", "m">>,
     <<"g", "i", "t", "l", "a", "b", ".", "c", "o", "m">>,
     <<"s", "t", "a", "c", "k", "o", "v", "e", "r", "f", "l", "o", "w", ".", "c", "o", "m">>,
     <<"g", "m", "a", "i", "l", ".", "c", "o", "m">>,
     <<"o", "u", "t", "l", "o", "o", "k", ".", "c", "o", "m">>,
     <<"s", "l", "a", "c", "k", ".", "c", "o", "m">>,
     <<"z", "o", "o", "m", ".", "u", "s">>, <<"o", "w", ".", "l", "y">>,
     <<"t", "i", "n", "y", "u", "r", "l", ".", "c", "o", "m">>,
     <<"r", "e", "b", "r", "a", "n", "d", ".", "l", "y">>,
     <<"s", "h", "o", "r", "t", ".", "i", "o">>,
     <<"i", "s", ".", "g", "d">>, <<"v", ".", "g", "d">>,
     <<"c", "u", "t", "t", ".", "l", "y">>,
     <<"s", "h", "o", "r", "t", "u", "r", "l", ".", "a", "t">>,
     <<"w", "i", "k", "i", "p", "e", "d", "i", "a", ".", "o", "r", "g">>,
     <<"a", "m", "a", "z", "o", "n", ".", "c", "o", "m">>,
     <<"e", "b", "a", "y", ".", "c", "o", "m">>}
PRODUCT_TLDS ==
    {<<".", "c", "o", "m">>, <<".", "i", "o">>, <<".", "c", "o">>,
     <<".", "a", "p", "p">>, <<".", "d", "e", "v">>, <<".", "a", "i">>,
     <<".", "s", "o">>, <<".", "m", "e">>}
PRODUCT_KEYWORDS ==
    {<<"a", "p", "p">>, <<"d", "a", "s", "h", "b", "o", "a", "r", "d">>,
     <<"p", "r", "i", "c", "i", "n", "g">>, <<"d", "e", "m", "o">>,
     <<"b", "e", "t", "a">>, <<"s", "a", "a", "s">>,
     <<"t", "o", "o", "l">>, <<"s", "o", "f", "t", "w", "a", "r", "e">>,
     <<"p", "l", "a", "t", "f", "o", "r", "m">>,
     <<"s", "e", "r", "v", "i", "c", "e">>}
ProductPaths ==
    {<<"/", "p", "r", "i", "c", "i", "n", "g">>,
     <<"/", "d", "e", "m", "o">>,
     <<"/", "f", "e", "a", "t", "u", "r", "e", "s">>,
     <<"/", "a", "b", "o", "u", "t">>, <<"/", "b", "l", "o", "g">>}
\* any(excluded in domain for excluded in self.EXCLUDED_DOMAINS)
IsExcluded(domain) ==
    \E excluded \in EXCLUDED_DOMAINS : Contains(domain, excluded)

\* _is_likely_product
is_likely_product(url, domain, path) ==
    LET has_product_tld == \E tld \in PRODUCT_TLDS : EndsWith(domain, tld)
        has_product_keyword ==
            \E kw \in PRODUCT_KEYWORDS : Contains(Lower(url), kw)
        is_short_domain == Len(FirstLabel(domain)) <= 15
        has_product_path == \E p \in ProductPaths : Contains(Lower(path), p)
        b(x) == IF x THEN 1 ELSE 0
        points == 2 * b(has_product_tld) + 2 * b(has_product_keyword)
                  + b(is_short_domain) + b(has_product_path)
                  + b(\/ EndsWith(domain, <<".", "a", "i">>)
                      \/ EndsWith(domain, <<".", "i", "o">>))
    IN points >= 2

\* _extract_name_from_domain
extract_name_from_domain(domain) ==
    IF Labels(domain) >= 2 THEN Title(FirstLabel(domain)) ELSE Title(domain)

\* URLExtractor._analyze_url of extractors/urls.py: an ExtractedProduct.
analyze_url(url) ==
    LET domain == DomainOf(url) IN
    IF IsExcluded(domain)
    THEN [url |-> url, name |-> Nothing, domain |-> domain,
          is_valid_product |-> FALSE]
    ELSE [url |-> url, name |-> Some(extract_name_from_domain(domain)),
          domain |-> domain,
          is_valid_product |->
              is_likely_product(url, domain, urlparse(url).path)]

Range(seq) == {seq[i] : i \in DOMAIN seq}

\* The URLs extract and extract_all analyse: all_urls, a set.
AllUrls(post) == Range(post.urls) \cup Range(extract_urls(post.text))

\* URLExtractor.extract(text, urls): the products, in no fixed order.
url_extract(post) ==
    {analyze_url(u) : u \in {v \in AllUrls(post) :
                                 analyze_url(v).is_valid_product}}

\* URLExtractor.extract_all(text, urls)
url_extract_all(post) == {analyze_url(u) : u \in AllUrls(post)}

(***************************************************************************)
(* parsers/url.py                                                          *)
(***************************************************************************)
PARSER_EXCLUDED_DOMAINS ==
    {<<"t", "w", "i", "t", "t", "e", "r", ".", "c", "o", "m">>,
     <<"x", ".", "c", "o", "m">>, <<"t", ".", "c", "o">>,
     <<"p", "i", "c", ".", "t", "w", "i", "t", "t", "e", "r", ".", "c", "o", "m">>,
     <<"f", "a", "c", "e", "b", "o", "o", "k", ".", "c", "o", "m">>,
     <<"f", "b", ".", "c", "o", "m">>,
     <<"i", "n", "s", "t", "a", "g", "r", "a", "m", ".", "c", "o", "m">>,
     <<"l", "i", "n", "k", "e", "d", "i", "n", ".", "c", "o", "m">>,
     <<"t", "i", "k", "t", "o", "k", ".", "c", "o", "m">>,
     <<"y", "o", "u", "t", "u", "b", "e", ".", "c", "o", "m">>,
     <<"y", "o", "u", "t", "u", ".", "b", "e">>,
     <<"r", "e", "d", "d", "i", "t", ".", "c", "o", "m">>,
     <<"t", "h", "r", "e", "a", "d", "s", ".", "n", "e", "t">>,
     <<"m", "a", "s", "t", "o", "d", "o", "n", ".", "s", "o", "c", "i", "a", "l">>,
     <<"b", "i", "t", ".", "l", "y">>, <<"g", "o", "o", ".", "g", "l">>,
     <<"t", "i", "n", "y", "u", "r", "l", ".", "c", "o", "m">>,
     <<"o", "w", ".", "l", "y">>, <<"b", "u", "f", "f", ".", "l", "y">>,
     <<"i", "s", ".", "g", "d">>, <<"v", ".", "g", "d">>,
     <<"s", "h", "o", "r", "t", "e", ".", "s", "t">>,
     <<"a", "d", "f", ".", "l", "y">>,
     <<"m", "e", "d", "i", "u", "m", ".", "c", "o", "m">>,
     <<"s", "u", "b", "s", "t", "a", "c", "k", ".", "c", "o", "m">>,
     <<"n", "o", "t", "i", "o", "n", ".", "s", "o">>,
     <<"d", "o", "c", "s", ".", "g", "o", "o", "g", "l", "e", ".", "c", "o", "m">>,
     <<"d", "r", "i", "v", "e", ".", "g", "o", "o", "g", "l", "e", ".", "c", "o", "m">>,
     <<"g", "i", "t", "h", "u", "b", ".", "c", "o", "m">>,
     <<"g", "i", "t", "l", "a", "b", ".", "c", "o", "m">>,
     <<"b", "i", "t", "b", "u", "c", "k", "e", "t", ".", "o", "r", "g">>,
     <<"i", "m", "g", "u", "r", ".", "c", "o", "m">>,
     <<"g", "i", "p", "h", "y", ".", "c", "o", "m">>,
     <<"s", "t", "r", "i", "p", "e", ".", "c", "o", "m">>,
     <<"p", "a", "y", "p", "a", "l", ".", "c", "o", "m">>,
     <<"a", "n", "a", "l", "y", "t", "i", "c", "s", ".", "g", "o", "o", "g", "l", "e", ".", "c", "o", "m">>}
ParserProductPaths ==
    {<<"p", "r", "i", "c", "i", "n", "g">>,
     <<"f", "e", "a", "t", "u", "r", "e", "s">>, <<"d", "e", "m", "o">>,
     <<"s", "i", "g", "n", "u", "p">>,
     <<"r", "e", "g", "i", "s", "t", "e", "r">>,
     <<"s", "t", "a", "r", "t">>}
\* PRODUCT_DOMAIN_PATTERNS, tried with re.match on the domain.
MatchesProductPattern(domain) ==
    \/ \E tld \in {<<".", "i", "o">>, <<".", "a", "i">>, <<".", "c", "o">>, <<".", "a", "p", "p">>, <<".", "s", "o">>, <<".", "t", "o", "o", "l">>, <<".", "t", "o", "o", "l", "s">>,
                   <<".", "d", "e", "v">>, <<".", "x", "y", "z">>} : EndsWith(domain, tld)
    \/ \E pre \in {<<"g", "e", "t">>, <<"t", "r", "y">>, <<"u", "s", "e">>} :
           /\ StartsWith(domain, pre)
           /\ EndsWith(Drop(domain, 3), <<".", "c", "o", "m">>)

\* _extract_product_name
NamePrefixes == <<<<"g", "e", "t">>, <<"t", "r", "y">>, <<"u", "s", "e">>, <<"m", "y">>, <<"t", "h", "e">>, <<"a", "p", "p">>, <<"w", "w", "w">>>>
extract_product_name(domain) ==
    LET first == FirstLabel(domain)
        hits == {k \in DOMAIN NamePrefixes :
                    /\ StartsWith(Lower(first), NamePrefixes[k])
                    /\ Len(first) > Len(NamePrefixes[k])}
        name_part ==
            IF hits = {} THEN first
            ELSE LET k == CHOOSE h \in hits : \A g \in hits : h <= g
                 IN Drop(first, Len(NamePrefixes[k]))
    IN
    IF Labels(domain) < 2 THEN Nothing
    ELSE Some(Capitalize(IF Len(name_part) < 2 THEN first ELSE name_part))

\* URLExtractor._analyze_url of parsers/url.py: a ProductURL.  Confidences
\* are in hundredths.
parser_analyze_url(url) ==
    LET domain == DomainOf(url)
        path == Strip(urlparse(url).path, {"/"})
        by_pattern == IF MatchesProductPattern(domain) THEN 20 ELSE 0
        by_depth == IF path = <<>> THEN 15
                    ELSE IF Count(path, "/") = 0 THEN 10
                    ELSE IF Count(path, "/") > 2 THEN 0 - 10
                    ELSE 0
        by_page == IF \E p \in ParserProductPaths : Contains(Lower(path), p)
                   THEN 10 ELSE 0
        confidence == 50 + by_pattern + by_depth + by_page
    IN
    IF domain \in PARSER_EXCLUDED_DOMAINS
    THEN [url |-> url, domain |-> domain, is_product_url |-> FALSE,
          product_name |-> Nothing, confidence |-> 0]
    ELSE [url |-> url, domain |-> domain,
          is_product_url |-> confidence >= 50,
          product_name |-> extract_product_name(domain),
          confidence |-> Min(confidence, 100)]

\* extract_product_urls(urls)
extract_product_urls(urls) ==
    LET analysed == [i \in DOMAIN urls |-> parser_analyze_url(urls[i])]
    IN SortedByConfidence(SelectSeq(analysed, LAMBDA r : r.is_product_url))

\* get_best_product_url(text)
get_best_product_url(text) ==
    LET product_urls == extract_product_urls(extract_urls(text)) IN
    IF product_urls = <<>> THEN Nothing ELSE Some(product_urls[1])

(***************************************************************************)
(* The posts the URL extractors are applied to.                            *)
(***************************************************************************)
SampleUrls ==
    {<<"h", "t", "t", "p", "s", ":", "/", "/", "t", "w", "i", "t", "t", "e", "r", ".", "c", "o", "m", "/", "u", "s", "e", "r">>,
     <<"h", "t", "t", "p", "s", ":", "/", "/", "w", "w", "w", ".", "t", "w", "i", "t", "t", "e", "r", ".", "c", "o", "m">>,
     <<"h", "t", "t", "p", "s", ":", "/", "/", "T", "w", "i", "t", "t", "e", "r", ".", "c", "o", "m">>,
     <<"h", "t", "t", "p", "s", ":", "/", "/", "x", ".", "c", "o", "m">>,
     <<"h", "t", "t", "p", "s", ":", "/", "/", "n", "e", "x", "t", ".", "c", "o", "m">>,
     <<"h", "t", "t", "p", "s", ":", "/", "/", "p", "i", "n", "t", "e", "r", "e", "s", "t", ".", "c", "o", "m", "/", "p", "r", "i", "c", "i", "n", "g">>,
     <<"h", "t", "t", "p", "s", ":", "/", "/", "m", "o", "b", "i", "l", "e", ".", "t", "w", "i", "t", "t", "e", "r", ".", "c", "o", "m", "/", "a", "/", "b", "/", "c", "/", "d">>,
     <<"h", "t", "t", "p", "s", ":", "/", "/", "m", "y", "t", "o", "o", "l", ".", "i", "o">>,
     <<"h", "t", "t", "p", "s", ":", "/", "/", "s", "t", "r", "i", "p", "e", ".", "c", "o", "m">>,
     <<"h", "t", "t", "p", "s", ":", "/", "/", "d", "i", "s", "c", "o", "r", "d", ".", "c", "o", "m">>,
     <<"h", "t", "t", "p", "s", ":", "/", "/", "l", "i", "n", "k", "e", "d", "i", "n", ".", "c", "o", "m", "/", "i", "n", "/", "u", "s", "e", "r">>,
     <<"h", "t", "t", "p", "s", ":", "/", "/", "e", "x", "a", "m", "p", "l", "e", ".", "o", "r", "g", "/", "a", "/", "b", "/", "c", "/", "d">>}
\* The matches of the URL pattern in a text: a URL, or a URL and the full
\* stop that ends the sentence.
UrlMatches ==
    SampleUrls \cup {Append(u, ".") : u \in {v \in SampleUrls :
                                                Count(v, "/") > 2}}

\* Posts: the text (at most n matches of the pattern in it) and the URLs
\* of the post's metadata.
UrlPosts(n) ==
    {[text |-> t, urls |-> u] :
        t \in SeqsUpTo(UrlMatches, n),
        u \in {<<>>} \cup {<<v>> : v \in {w \in SampleUrls :
                                             Count(w, "/") = 2}}}

AnalyzeUrl ==
    /\ arg # Nothing
    /\ res = Nothing
    /\ arg[1].text = <<>>
    /\ Len(arg[1].urls) = 1
    /\ res' = Some([fn |-> "extractors._analyze_url",
                    out |-> analyze_url(arg[1].urls[1])])
    /\ UNCHANGED arg
    /\ UNCHANGED <<managerVars, scoreVars, dbVars, concVars>>

UrlExtract ==
    /\ arg # Nothing
    /\ res = Nothing
    /\ res' = Some([fn |-> "extractors.extract",
                    out |-> url_extract(arg[1])])
    /\ UNCHANGED arg
    /\ UNCHANGED <<managerVars, scoreVars, dbVars, concVars>>

UrlExtractAll ==
    /\ arg # Nothing
    /\ res = Nothing
    /\ res' = Some([fn |-> "extractors.extract_all",
                    out |-> url_extract_all(arg[1])])
    /\ UNCHANGED arg
    /\ UNCHANGED <<managerVars, scoreVars, dbVars, concVars>>

ParserAnalyzeUrl ==
    /\ arg # Nothing
    /\ res = Nothing
    /\ arg[1].text = <<>>
    /\ Len(arg[1].urls) = 1
    /\ res' = Some([fn |-> "parsers._analyze_url",
                    out |-> parser_analyze_url(arg[1].urls[1])])
    /\ UNCHANGED arg
    /\ UNCHANGED <<managerVars, scoreVars, dbVars, concVars>>

ExtractProductUrls ==
    /\ arg # Nothing
    /\ res = Nothing
    /\ arg[1].text = <<>>
    /\ res' = Some([fn |-> "parsers.extract_product_urls",
                    out |-> extract_product_urls(arg[1].urls)])
    /\ UNCHANGED arg
    /\ UNCHANGED <<managerVars, scoreVars, dbVars, concVars>>

GetBestProductUrl ==
    /\ arg # Nothing
    /\ res = Nothing
    /\ arg[1].urls = <<>>
    /\ res' = Some([fn |-> "parsers.get_best_product_url",
                    out |-> get_best_product_url(arg[1].text)])
    /\ UNCHANGED arg
    /\ UNCHANGED <<managerVars, scoreVars, dbVars, concVars>>

InitUrl ==
    /\ RestIdle
    /\ arg \in {Some(p) : p \in UrlPosts(MaxUrls)}
    /\ res = Nothing

NextUrl ==
    \/ AnalyzeUrl
    \/ UrlExtract
    \/ UrlExtractAll
    \/ ParserAnalyzeUrl
    \/ ExtractProductUrls
    \/ GetBestProductUrl

SpecUrl == InitUrl /\ [][NextUrl]_vars

(***************************************************************************)
(* ScoringResult.grade (scoring/scorer.py).                                *)
(***************************************************************************)
\* The ranges of the four sub-scores of a ScoringResult: traction 0-30,
\* growth 0-25, traffic 0-25, simplicity 0-20.
SubScoreCaps == <<30, 25, 25, 20>>
MaxTotal == SubScoreCaps[1] + SubScoreCaps[2] + SubScoreCaps[3]
            + SubScoreCaps[4]

\* The property grade of a ScoringResult.
grade_strict(r) ==
    IF r.total_score > 90 THEN "A+"
    ELSE IF r.total_score >= 80 THEN "A"
    ELSE IF r.total_score >= 70 THEN "B"
    ELSE IF r.total_score >= 60 THEN "C"
    ELSE IF r.total_score >= 50 THEN "D"
    ELSE "F"

grade(r) ==
    IF r.total_score >= 90 THEN "A+"
    ELSE IF r.total_score >= 80 THEN "A"
    ELSE IF r.total_score >= 70 THEN "B"
    ELSE IF r.total_score >= 60 THEN "C"
    ELSE IF r.total_score >= 50 THEN "D"
    ELSE "F"

\* A ScoringResult of the given total: its sub-scores add up to the total,
\* filled from the first one on or from the last one on.
ResultOf(t, from_first) ==
    LET c == SubScoreCaps
        a1 == Min(t, IF from_first THEN c[1] ELSE c[4])
        a2 == Min(t - a1, IF from_first THEN c[2] ELSE c[3])
        a3 == Min(t - a1 - a2, IF from_first THEN c[3] ELSE c[2])
        a4 == t - a1 - a2 - a3
    IN
    [total_score |-> t,
     traction_score |-> IF from_first THEN a1 ELSE a4,
     growth_score |-> IF from_first THEN a2 ELSE a3,
     traffic_score |-> IF from_first THEN a3 ELSE a2,
     simplicity_score |-> IF from_first THEN a4 ELSE a1]

GradeInputs == {ResultOf(t, b) : t \in 0 .. MaxTotal, b \in BOOLEAN}

Grade ==
    /\ arg # Nothing
    /\ res = Nothing
    /\ res' = Some(grade(arg[1]))
    /\ UNCHANGED arg
    /\ UNCHANGED <<managerVars, scoreVars, dbVars, concVars>>

InitGrade ==
    /\ RestIdle
    /\ arg \in {Some(r) : r \in GradeInputs}
    /\ res = Nothing

NextGrade == Grade

SpecGrade == InitGrade /\ [][NextGrade]_vars

(***************************************************************************)
(* Concurrent search calls on one manager.  A coroutine runs until it       *)
(* awaits: each await of initialize (scraper.initialize(), line 89) and     *)
(* each step of an adapter's stream (line 142) is a point where another     *)
(* caller may run.                                                          *)
(***************************************************************************)
ConcRest ==
    UNCHANGED <<enable_scweet, last_init, call, multiVars, searchVars,
                scoreVars, dbVars, arg, res, closes>>

\* The for loop of search over self.scrapers from index idx on: the next
\* adapter's stream is opened, or the loop is over and search returns or
\* raises last_error.  list is the list the loop iterates, now the list
\* self.scrapers names.
EnterLoop(c, idx, list, now) ==
    IF idx <= Len(list)
    THEN [calls[c] EXCEPT !.pc = "stream", !.idx = idx]
    ELSE [calls[c] EXCEPT !.pc = "ended", !.idx = idx, !.end = now]

\* for scraper in self.scrapers: the list the loop of caller c iterates.
LoopList(c) == IF calls[c].over = <<>> THEN scrapers ELSE calls[c].over[1]

\* The owner of the manager awaits initialize() before any search is made.
OwnerInitialize ==
    /\ \A c \in Callers : calls[c].pc = "idle"
    /\ ~initialized
    /\ \E oc \in [Names -> Outcomes] :
           LET after == ScrapersAfterInit(oc) IN
           /\ scrapers' = after
           /\ active_scraper' = IF after # <<>> THEN after[1]
                                ELSE active_scraper
           /\ initialized' = IF after # <<>> THEN TRUE ELSE initialized
    /\ UNCHANGED calls
    /\ ConcRest

\* search(query, limit) called by caller c: if not self._initialized, the
\* call enters initialize and runs to its first await; otherwise it enters
\* the for loop.
ConcSearchCall(c) ==
    /\ calls[c].pc = "idle"
    /\ calls' = [calls EXCEPT ![c] =
                    IF ~initialized
                    THEN [NoCall EXCEPT !.pc = "init", !.i = 1,
                                        !.start = scrapers]
                    ELSE [EnterLoop(c, 1, scrapers, scrapers)
                              EXCEPT !.start = scrapers]]
    /\ UNCHANGED <<scrapers, active_scraper, initialized>>
    /\ ConcRest

\* initialize inside search: await scraper.initialize() of the i-th backend
\* returns (oc is what it does); self.scrapers.append(scraper) when it is
\* True.  After the last backend: if self.scrapers, active_scraper and
\* _initialized are set and search enters its for loop; otherwise search
\* returns.
ConcInitStep(c, oc) ==
    LET to_try == ScrapersToTry(enable_scweet)
        me == calls[c]
        list == IF oc = "ok" THEN Append(scrapers, to_try[me.i])
                ELSE scrapers
    IN
    /\ me.pc = "init"
    /\ scrapers' = list
    /\ IF me.i < Len(to_try)
       THEN /\ calls' = [calls EXCEPT ![c].i = me.i + 1]
            /\ UNCHANGED <<active_scraper, initialized>>
       ELSE IF list # <<>>
            THEN /\ active_scraper' = list[1]
                 /\ initialized' = TRUE
                 /\ calls' = [calls EXCEPT ![c] = EnterLoop(c, 1, list, list)]
            ELSE /\ calls' = [calls EXCEPT ![c].pc = "ended",
                                           ![c].end = list]
                 /\ UNCHANGED <<active_scraper, initialized>>
    /\ ConcRest

\* The stream of the adapter caller c is trying ends:
\* self.active_scraper = scraper; return.
ConcFinish(c) ==
    /\ calls[c].pc = "stream"
    /\ active_scraper' = LoopList(c)[calls[c].idx]
    /\ calls' = [calls EXCEPT ![c].pc = "ended", ![c].end = scrapers]
    /\ UNCHANGED <<scrapers, initialized>>
    /\ ConcRest

\* The stream of the adapter caller c is trying raises: continue.
ConcRaise(c) ==
    /\ calls[c].pc = "stream"
    /\ calls' = [calls EXCEPT ![c] =
                    EnterLoop(c, NextAttempt(calls[c].idx), LoopList(c),
                              scrapers)]
    /\ UNCHANGED <<scrapers, active_scraper, initialized>>
    /\ ConcRest

\* The caller is done with the call it made and may call again.
ConcReturn(c) ==
    /\ calls[c].pc = "ended"
    /\ calls' = [calls EXCEPT ![c] = NoCall]
    /\ UNCHANGED <<scrapers, active_scraper, initialized>>
    /\ ConcRest

InitConc ==
    /\ MgrInit
    /\ ScoreIdle
    /\ DbIdle
    /\ PureIdle

NextConc ==
    \/ OwnerInitialize
    \/ \E c \in Callers : ConcSearchCall(c)
    \/ \E c \in Callers, oc \in Outcomes : ConcInitStep(c, oc)
    \/ \E c \in Callers : ConcFinish(c)
    \/ \E c \in Callers : ConcRaise(c)
    \/ \E c \in Callers : ConcReturn(c)

SpecConc == InitConc /\ [][NextConc]_vars

\* close() called while other callers' calls are in flight.  Its awaits
\* (scraper.close(), line 278) leave the manager's fields alone; the three
\* assignments at its end run without an await between them.  A for loop
\* that is under way keeps the list object it started on.
ConcClose ==
    /\ closes < MaxCloses
    /\ closes' = closes + 1
    /\ scrapers' = <<>>
    /\ active_scraper' = None
    /\ initialized' = FALSE
    /\ calls' = [c \in Callers |->
                    IF calls[c].pc = "stream" /\ calls[c].over = <<>>
                    THEN [calls[c] EXCEPT !.over = <<scrapers>>]
                    ELSE calls[c]]
    /\ UNCHANGED <<enable_scweet, last_init, call, multiVars, searchVars,
                   scoreVars, dbVars, arg, res>>

NextClose ==
    \/ OwnerInitialize
    \/ \E c \in Callers : ConcSearchCall(c)
    \/ \E c \in Callers, oc \in Outcomes : ConcInitStep(c, oc)
    \/ \E c \in Callers : ConcFinish(c)
    \/ \E c \in Callers : ConcRaise(c)
    \/ \E c \in Callers : ConcReturn(c)
    \/ ConcClose

SpecClose == InitConc /\ [][NextClose]_vars

Init ==
    /\ MgrInit
    /\ ScoreIdle
    /\ DbIdle
    /\ PureIdle

Next ==
    \/ Initialize
    \/ Close
    \/ SearchCall
    \/ \E id \in PostIds : AdapterYield(id)
    \/ AdapterFinish
    \/ AdapterRaise
    \/ ConsumerStops
    \/ MultiCall
    \/ MultiNextQuery
    \/ MultiEnd

Spec == Init /\ [][Next]_vars

\* The manager under calls of search and of get_user_tweets.
NextFetch ==
    \/ Initialize
    \/ Close
    \/ SearchCall
    \/ UserTweetsCall
    \/ \E id \in PostIds : AdapterYield(id)
    \/ AdapterFinish
    \/ AdapterRaise
    \/ ConsumerStops

SpecFetch == Init /\ [][NextFetch]_vars

(***************************************************************************)
(* The specifications of the scorer and of the database.                   *)
(***************************************************************************)
InitScore ==
    /\ MgrIdle
    /\ DbIdle
    /\ PureIdle
    /\ idea \in ScoreInputs
    /\ score = Nothing

NextScore == ScoreIdea

SpecScore == InitScore /\ [][NextScore]_vars

InitDb ==
    /\ MgrIdle
    /\ ScoreIdle
    /\ DbIdle
    /\ PureIdle

NextDb ==
    \/ SaveIdea
    \/ SaveIdeasBegin
    \/ SaveIdeasStep
    \/ SaveIdeasEnd

SpecDb == InitDb /\ [][NextDb]_vars

\* Saves that meet rows the user has annotated.
NextFrame ==
    \/ SaveDescribedIdea
    \/ ToggleFavorite
    \/ AddNote

SpecFrame == InitDb /\ [][NextFrame]_vars

TypeOK ==
    /\ enable_scweet \in BOOLEAN
    /\ initialized \in BOOLEAN
    /\ active_scraper \in Names \cup {None}
    /\ call \in {"none", "search", "multi", "user"}
    /\ s_pc \in {"idle", "run", "done", "raised", "closed"}
    /\ m_pc \in {"idle", "loop", "done", "closed", "raised"}
    /\ at_yield \in BOOLEAN
    /\ closes \in 0 .. MaxCloses
    /\ last_error \in Names \cup {None}
    /\ s_raised \in Names \cup {None}
    /\ seen_ids \subseteq PostIds
    /\ tweet_count \in 0 .. Limit

(***************************************************************************)
(* Helpers of the properties.                                              *)
(***************************************************************************)
Priority == <<"twscrape", "apify", "scweet">>
Rank(n) == CHOOSE i \in DOMAIN Priority : Priority[i] = n
InList(n) == \E k \in DOMAIN scrapers : scrapers[k] = n

\* The items of seq whose id occurs at no earlier index, in the order of seq.
RECURSIVE FirstOccurrences(_, _)
FirstOccurrences(seq, i) ==
    IF i > Len(seq) THEN <<>>
    ELSE IF \E j \in 1 .. i - 1 : seq[j].id = seq[i].id
         THEN FirstOccurrences(seq, i + 1)
         ELSE <<seq[i]>> \o FirstOccurrences(seq, i + 1)

QueryOrdered(seq) ==
    \A i, j \in DOMAIN seq : i < j => seq[i].q <= seq[j].q

(***************************************************************************)
(* Properties of ScraperManager, checked under Spec.                       *)
(***************************************************************************)

\* C1 (as claimed): once an adapter has yielded a post in a search call and
\* its stream then raises, the call is over with that error: it is the last
\* attempt of the call, search has raised that adapter's error, and every
\* post the call yielded comes from that adapter.
C1_CommitsToYieldingAdapter ==
    \A i \in DOMAIN s_tried :
        (s_tried[i].cnt > 0 /\ s_tried[i].end = "raise") =>
            /\ i = Len(s_tried)
            /\ s_pc = "raised"
            /\ s_raised = s_tried[i].by
            /\ \A k \in DOMAIN s_out : s_out[k].by = s_tried[i].by

\* C2: with deduplicate on, the posts one search_multiple_queries call has
\* yielded have pairwise distinct ids.
C2_NoIdYieldedTwice ==
    (call = "multi" /\ dedup) =>
        \A i, j \in DOMAIN m_out : i # j => m_out[i].id # m_out[j].id

\* C2 witness: a deduplicating call has received the same id twice inside
\* one adapter's stream of one query, and again from another adapter under
\* another query.
C2_Witness ==
    /\ call = "multi"
    /\ dedup
    /\ \E i, j, k \in DOMAIN m_recv :
          /\ i < j
          /\ j < k
          /\ m_recv[i].id = m_recv[j].id
          /\ m_recv[j].id = m_recv[k].id
          /\ m_recv[i].q = m_recv[j].q
          /\ m_recv[i].by = m_recv[j].by
          /\ m_recv[k].q # m_recv[i].q
          /\ m_recv[k].by # m_recv[i].by

\* C3: when every adapter of the list has raised in a search call, search
\* has raised the error of the last adapter attempted; when an adapter's
\* stream has completed, that attempt is the last of the call and search
\* has ended without raising.
C3_LastErrorOrNormalEnd ==
    /\ (/\ scrapers # <<>>
        /\ \A k \in DOMAIN scrapers :
              \E i \in DOMAIN s_tried :
                  s_tried[i].by = scrapers[k] /\ s_tried[i].end = "raise")
       => (/\ s_pc = "raised"
           /\ s_raised = s_tried[Len(s_tried)].by
           /\ s_tried[Len(s_tried)].end = "raise")
    /\ \A i \in DOMAIN s_tried :
          s_tried[i].end = "ok" =>
              /\ i = Len(s_tried)
              /\ s_pc = "done"
              /\ s_raised = None

\* C3 witness: three adapters were tried, all raised, and search raised.
C3_Witness ==
    /\ s_pc = "raised"
    /\ Len(scrapers) = 3
    /\ Len(s_tried) = 3
    /\ s_raised = scrapers[3]

\* C4: an adapter that raised before yielding any post has no post in the
\* call's output, and when the list holds adapters of lower priority the
\* attempt after it is made with the highest-priority one of them.
C4_FailedBeforeYieldingThenNext ==
    \A i \in DOMAIN s_tried :
        (s_tried[i].end = "raise" /\ s_tried[i].cnt = 0) =>
            LET failed == s_tried[i].by
                lower == {n \in Names : InList(n) /\ Rank(n) > Rank(failed)}
            IN
            /\ \A k \in DOMAIN s_out : s_out[k].by # failed
            /\ lower # {} =>
                  /\ i < Len(s_tried)
                  /\ s_tried[i + 1].by \in lower
                  /\ \A n \in lower : Rank(s_tried[i + 1].by) <= Rank(n)

\* C4 witness: the first adapter raised before yielding, the next one has
\* yielded a post, and a third adapter is in the list.
C4_Witness ==
    /\ Len(scrapers) = 3
    /\ Len(s_tried) = 2
    /\ s_tried[1].end = "raise"
    /\ s_tried[1].cnt = 0
    /\ s_tried[2].cnt > 0
    /\ Len(s_out) > 0

\* C5 (as claimed): whatever the deduplicate argument, the posts a
\* search_multiple_queries call has yielded are exactly the first
\* occurrences of the ids its searches returned, in the order received, and
\* posts of an earlier query precede posts of a later query.
C5_EveryIdOnce ==
    call = "multi" =>
        /\ m_out = FirstOccurrences(m_recv, 1)
        /\ QueryOrdered(m_recv)
        /\ QueryOrdered(m_out)

\* C5 (amended): with deduplicate on, the posts a search_multiple_queries
\* call has yielded are exactly the first occurrences of the ids its
\* searches returned, in the order received, and posts of an earlier query
\* precede posts of a later query.
C5_FirstOccurrenceInQueryOrder ==
    (call = "multi" /\ dedup) =>
        /\ m_out = FirstOccurrences(m_recv, 1)
        /\ QueryOrdered(m_recv)
        /\ QueryOrdered(m_out)

\* C5 witness: a deduplicating call has ended after two queries; a post of
\* the second query was suppressed as seen under the first, and another post
\* of the second query was yielded.
C5_Witness ==
    /\ call = "multi"
    /\ dedup
    /\ m_pc = "done"
    /\ \E i, j \in DOMAIN m_recv :
          /\ m_recv[i].q = 1
          /\ m_recv[j].q = 2
          /\ m_recv[i].id = m_recv[j].id
    /\ \E i, j \in DOMAIN m_out : m_out[i].q = 1 /\ m_out[j].q = 2

\* C9: after initialize on a fresh manager, the list holds exactly the
\* backends that initialised (scweet only when enabled) in priority order,
\* backends that returned False or raised are skipped, and initialize
\* returned True, with the manager initialized and the first of the list
\* active, iff the list is non-empty.
C9_InitializeKeepsWhatInitialised ==
    (last_init.called /\ last_init.fresh) =>
        LET kept(n) == n \in last_init.ok /\ (n = "scweet" => enable_scweet)
        IN
        /\ scrapers = SelectSeq(Priority, kept)
        /\ last_init.ret = (scrapers # <<>>)
        /\ last_init.ret => (/\ last_init.initialized
                             /\ initialized
                             /\ last_init.active = scrapers[1])
        /\ ~last_init.ret => (/\ ~last_init.initialized
                              /\ ~initialized
                              /\ last_init.active = None)

\* C9 witness: on a fresh manager twscrape failed to initialise, and apify
\* and scweet, tried after it, both initialised.
C9_Witness ==
    /\ last_init.called
    /\ last_init.fresh
    /\ last_init.ok = {"apify", "scweet"}
    /\ scrapers = <<"apify", "scweet">>
    /\ last_init.ret

\* C10: the first attempt of every search call is made with the first
\* adapter of the list.
C10_StartsFromFirstAdapter ==
    s_tried # <<>> => s_tried[1].by = scrapers[1]

\* C10 witness: a search call is in its first attempt while the adapter
\* recorded as active, left by an earlier call, is not the first of the list.
C10_Witness ==
    /\ s_pc = "run"
    /\ Len(s_tried) = 1
    /\ active_scraper # None
    /\ active_scraper # scrapers[1]

(***************************************************************************)
(* Database: what a save does to a row already stored.                     *)
(***************************************************************************)
ScoreFields(row) ==
    <<row.total_score, row.traction_score, row.growth_score,
      row.traffic_score, row.simplicity_score, row.score_breakdown>>

IncomingScoreFields(sc) ==
    <<sc.total_score, sc.traction_score, sc.growth_score, sc.traffic_score,
      sc.simplicity_score, Some(sc.breakdown)>>

EngagementFields(r) == <<r.likes, r.retweets, r.replies, r.impressions>>

\* C6: in every step of save_idea or save_ideas, a row that is stored stays
\* stored with a total score that is not lower; and when any of its score
\* fields (total, the four sub-scores, breakdown) changes, the step saved an
\* idea for that tweet id whose score has a strictly greater total than the
\* stored one, and all the score fields now are those of the incoming score.
C6_ScoreOnlyReplacedByGreater ==
    [][\A t \in TweetIds :
          db[t] # Nothing =>
             /\ db'[t] # Nothing
             /\ db'[t][1].total_score >= db[t][1].total_score
             /\ ScoreFields(db'[t][1]) # ScoreFields(db[t][1]) =>
                   /\ last_save'.saved
                   /\ last_save'.idea.tweet_id = t
                   /\ last_save'.idea.score # Nothing
                   /\ last_save'.idea.score[1].total_score
                         > db[t][1].total_score
                   /\ ScoreFields(db'[t][1])
                         = IncomingScoreFields(last_save'.idea.score[1])]_vars

\* C6 witness: the last save found its tweet id stored and carried a score
\* of the same total as the stored one but other sub-scores; the row keeps
\* the sub-scores it had.
C6_Witness ==
    /\ last_save.saved
    /\ last_save.existed
    /\ last_save.idea.score # Nothing
    /\ LET row == db[last_save.idea.tweet_id][1]
           sc == last_save.idea.score[1]
       IN
       /\ sc.total_score = row.total_score
       /\ sc.traction_score # row.traction_score
       /\ row.total_score > 0

\* C7: when the last save found its tweet id already stored, the row's
\* likes, retweets, replies and impressions are those of the idea saved.
C7_EngagementRefreshed ==
    (last_save.saved /\ last_save.existed) =>
        /\ db[last_save.idea.tweet_id] # Nothing
        /\ EngagementFields(db[last_save.idea.tweet_id][1])
              = EngagementFields(last_save.idea.fields)

\* C7 witness: the last save found its tweet id stored with a higher total
\* than the incoming score's; the row keeps its score and carries the
\* incoming impressions.
C7_Witness ==
    /\ last_save.saved
    /\ last_save.existed
    /\ last_save.idea.score # Nothing
    /\ LET row == db[last_save.idea.tweet_id][1]
           i == last_save.idea
       IN
       /\ i.score[1].total_score < row.total_score
       /\ i.fields.impressions = 20
       /\ row.impressions = 20
       /\ row.likes = i.fields.likes
       /\ row.replies = 0

(***************************************************************************)
(* IdeaScorer.score_idea.                                                  *)
(***************************************************************************)
\* C8: the result of score_idea has total = traction + growth + traffic +
\* simplicity, with traction in 0..30, growth in 0..25, traffic in 0..25,
\* simplicity in 0..20 and total in 0..100.
C8_TotalIsSumWithinBounds ==
    score # Nothing =>
        LET r == score[1] IN
        /\ r.total_score = r.traction_score + r.growth_score
                              + r.traffic_score + r.simplicity_score
        /\ r.traction_score \in 0 .. 30
        /\ r.growth_score \in 0 .. 25
        /\ r.traffic_score \in 0 .. 25
        /\ r.simplicity_score \in 0 .. 20
        /\ r.total_score \in 0 .. 100

\* C8 witness: an idea whose growth signals add up to 27 and whose MRR bonus
\* would pass 30 is scored 100, each component on its upper bound.
C8_Witness ==
    /\ score # Nothing
    /\ idea.has_stripe_screenshot
    /\ idea.author_followers >= follower_threshold
    /\ RateAbove(idea, engagement_rate_threshold, 1)
    /\ idea.reported_mrr = Some(10000)
    /\ idea.revenue_confidence >= 90
    /\ score[1].growth_score = 25
    /\ score[1].traction_score = 30
    /\ score[1].total_score = 100

(***************************************************************************)
(* IdeaScorer.determine_replicability.                                     *)
(***************************************************************************)
\* The decision tree as stated: the first rule that matches, in the order
\* paid > 50% HIGH, paid and organic > 20% MEDIUM, organic > 60% LOW,
\* single feature HIGH, monthly revenue < 5000 MEDIUM, else UNKNOWN.
\* Absent revenue matches no revenue rule.
StatedReplicability(i) ==
    IF i.traffic.paid_percent > 50 THEN "high"
    ELSE IF i.traffic.paid_percent > 20 /\ i.traffic.organic_percent > 20
    THEN "medium"
    ELSE IF i.traffic.organic_percent > 60 THEN "low"
    ELSE IF i.complexity = "single_feature" THEN "high"
    ELSE IF i.reported_mrr # Nothing /\ i.reported_mrr[1] < 5000
    THEN "medium"
    ELSE "unknown"

\* C11 (as claimed): for every idea with monthly revenue >= 0, or without
\* revenue, determine_replicability returns the verdict of the first
\* matching rule of the stated order.
C11_FirstMatchingRule ==
    res # Nothing => res[1] = StatedReplicability(arg[1])

(***************************************************************************)
(* The revenue extractors.                                                 *)
(***************************************************************************)
\* The amounts, in tenths of a unit, of the candidates a call returned.
ReturnedAmounts ==
    IF res = Nothing THEN {}
    ELSE IF res[1].fn = "extract"
    THEN {10 * r.amount : r \in {res[1].out[i] : i \in DOMAIN res[1].out}}
    ELSE IF res[1].fn = "extract_all"
    THEN {10 * res[1].out[i].amount : i \in DOMAIN res[1].out}
    ELSE IF res[1].fn = "parse"
    THEN {res[1].out[i].amount : i \in DOMAIN res[1].out}
    ELSE IF res[1].fn = "get_best_mrr"
    THEN {res[1].out[i].amount : i \in DOMAIN res[1].out}
    ELSE {}

\* C12 (as claimed): every candidate returned by extract, extract_all,
\* parse or get_best_mrr has 100 <= amount <= 100,000,000.
C12_AmountBetween100And100M ==
    \A a \in ReturnedAmounts : 1000 <= a /\ a <= 1000000000

(***************************************************************************)
(* The revenue of the ideas built from a post.                             *)
(***************************************************************************)
\* The figure a path extracted from the post: the best match of the legacy
\* parser for process_tweet, its first result for _process_tweet.
ExtractedFigure ==
    IF res[1].fn = "process_tweet" THEN get_best_mrr(arg[1].mtext)
    ELSE IF parse(arg[1].mtext) # <<>> THEN Some(parse(arg[1].mtext)[1])
    ELSE Nothing

\* C13 (as claimed): on both paths the revenue stored on an idea built from
\* a post is the extracted amount divided by 12 when the figure is an ARR,
\* and the extracted amount otherwise.
C13_StoredRevenueIsMonthly ==
    (res # Nothing /\ res[1].out # Nothing /\ ExtractedFigure # Nothing) =>
        LET fig == ExtractedFigure[1]
            stored == res[1].out[1].reported_mrr
        IN
        /\ stored # Nothing
        /\ stored[1].num = fig.amount
        /\ stored[1].den = (IF fig.type = "ARR" THEN 12 ELSE 1) * 10

(***************************************************************************)
(* C14.  When the consumer of search or search_multiple_queries stops      *)
(* iterating early, the manager issues no further adapter request for      *)
(* that call: the attempt the consumer closed is the last attempt of the   *)
(* search (no fallback adapter is started), the generators stay closed,    *)
(* and while they are closed no post is received, no attempt is added and  *)
(* no later query is run.                                                  *)
(***************************************************************************)
ClosedAttempts == {i \in DOMAIN s_tried : s_tried[i].end = "closed"}

C14_NoRequestAfterStop ==
    /\ [](ClosedAttempts # {} =>
            /\ ClosedAttempts = {Len(s_tried)}
            /\ s_pc = "closed"
            /\ call = "multi" => m_pc = "closed")
    /\ [][(s_pc = "closed" /\ s_pc' = "closed") =>
            UNCHANGED <<s_tried, s_out, m_recv, m_out, qpos>>]_vars

\* The consumer stopped a stream while a fallback adapter was left in the
\* list and, under search_multiple_queries, a later query could have run.
C14_Witness ==
    /\ s_pc = "closed"
    /\ s_idx < Len(scrapers)
    /\ call = "multi"
    /\ qpos < MaxQueries
    /\ Len(m_out) < MaxPosts

(***************************************************************************)
(* C15.  No search call writes the adapter list: for any interleaving of   *)
(* search calls on one manager, self.scrapers at the end of a call equals  *)
(* self.scrapers at its start.                                             *)
(***************************************************************************)
C15_ListUnchangedByCall ==
    \A c \in Callers : calls[c].pc = "ended" => calls[c].end = calls[c].start

(***************************************************************************)
(* C16.  One search call yields at most `limit` posts in total, each       *)
(* adapter yielding at most `limit` posts per attempt, whatever adapters   *)
(* fail during the call.                                                   *)
(***************************************************************************)
C16_AtMostLimitPosts ==
    /\ \A i \in DOMAIN s_tried : s_tried[i].cnt <= Limit
    /\ Len(s_out) <= Limit

(***************************************************************************)
(* C17.  The grade is a function of the total alone and is non-decreasing  *)
(* in it: A+ for a total >= 90, A for 80..89, B for 70..79, C for 60..69,  *)
(* D for 50..59 and F below 50, for every total in 0..100.                 *)
(***************************************************************************)
GradeOrder == <<"F", "D", "C", "B", "A", "A+">>
GradeRank(g) == CHOOSE k \in DOMAIN GradeOrder : GradeOrder[k] = g

StatedGrade(t) ==
    IF t >= 90 THEN "A+"
    ELSE IF t \in 80 .. 89 THEN "A"
    ELSE IF t \in 70 .. 79 THEN "B"
    ELSE IF t \in 60 .. 69 THEN "C"
    ELSE IF t \in 50 .. 59 THEN "D"
    ELSE "F"

C17_GradeStepFunction ==
    res # Nothing =>
        LET t == arg[1].total_score IN
        /\ t \in 0 .. 100
        /\ res[1] = StatedGrade(t)
        /\ \A r \in GradeInputs :
               r.total_score <= t => GradeRank(grade(r)) <= GradeRank(res[1])

\* The grade of a total on a cutoff, computed from a result whose sub-scores
\* are not those of the other result of the same total.
C17_Witness ==
    /\ res = Some("A+")
    /\ arg[1].total_score = 90
    /\ arg[1].simplicity_score = 20

(***************************************************************************)
(* C18.  The traffic score is 10 when no traffic-mix data is available;    *)
(* otherwise it is 15 when the organic share is above the organic          *)
(* threshold, 8 when it is above half that threshold, plus 10 when the     *)
(* paid and the organic share are each above 5%, capped at 25.             *)
(***************************************************************************)
StatedTraffic(i) ==
    LET t == i.traffic
        none == /\ t.organic_percent = 0
                /\ t.paid_percent = 0
                /\ t.social_percent = 0
                /\ t.estimated_monthly_visits = Nothing
        org == IF t.organic_percent > organic_traffic_threshold THEN 15
               ELSE IF 2 * t.organic_percent > organic_traffic_threshold
               THEN 8
               ELSE 0
        both == IF t.paid_percent > 5 /\ t.organic_percent > 5 THEN 10
                ELSE 0
    IN
    IF none THEN 10 ELSE Min(org + both, 25)

C18_TrafficScore ==
    score # Nothing => score[1].traffic_score = StatedTraffic(idea)

(***************************************************************************)
(* C19.  The growth score adds 12 for a Stripe screenshot, otherwise 10    *)
(* for any other screenshot; 10 when the engagement rate is above the      *)
(* engagement threshold, 5 when it is above half of it; 5 when the         *)
(* follower count is above the follower threshold, 3 when it is above      *)
(* half of it; the sum is capped at 25.                                    *)
(***************************************************************************)
StatedGrowth(i) ==
    LET shot == IF i.has_stripe_screenshot THEN 12
                ELSE IF i.has_screenshot THEN 10
                ELSE 0
        eng == IF RateAbove(i, engagement_rate_threshold, 1) THEN 10
               ELSE IF RateAbove(i, engagement_rate_threshold, 2) THEN 5
               ELSE 0
        fol == IF i.author_followers > follower_threshold THEN 5
               ELSE IF 2 * i.author_followers > follower_threshold THEN 3
               ELSE 0
    IN
    Min(shot + eng + fol, 25)

C19_GrowthScore ==
    score # Nothing => score[1].growth_score = StatedGrowth(idea)

(***************************************************************************)
(* C20.  The traction score is 30, 20, 10 or 0 according to whether the    *)
(* monthly revenue reaches the high, the medium, the low cutoff or none    *)
(* (10,000 / 5,000 / 1,000; absent revenue counts as 0), plus 2 when the   *)
(* revenue confidence is at least 0.9, the result capped at 30.            *)
(***************************************************************************)
StatedTraction(i) ==
    LET revenue == IF i.reported_mrr = Nothing THEN 0 ELSE i.reported_mrr[1]
        tier == IF revenue >= 10000 THEN 30
                ELSE IF revenue >= 5000 THEN 20
                ELSE IF revenue >= 1000 THEN 10
                ELSE 0
        bonus == IF i.revenue_confidence >= 90 THEN 2 ELSE 0
    IN
    Min(tier + bonus, 30)

C20_TractionScore ==
    score # Nothing =>
        /\ score[1].traction_score = StatedTraction(idea)
        /\ score[1].traction_score <= 30

\* Revenue on the high cutoff with a confident reading: the cap applies.
C20_Witness ==
    /\ score # Nothing
    /\ idea.reported_mrr = Some(10000)
    /\ idea.revenue_confidence >= 90
    /\ score[1].traction_score = 30

(***************************************************************************)
(* C21.  extract_all returns candidates with pairwise distinct amounts,    *)
(* sorted by non-increasing confidence; of the matches that have the same  *)
(* amount, the one kept is the first seen in pattern-table order.          *)
(***************************************************************************)
\* The matches of a text extract_all accepts, by index in pattern order.
Accepted(text) ==
    {k \in DOMAIN text.matches :
        /\ parse_match(text.matches[k]) # Nothing
        /\ parse_match(text.matches[k])[1] > 0}

C21_DistinctSortedFirstSeen ==
    (res # Nothing /\ res[1].fn = "extract_all") =>
        LET out == res[1].out
            text == arg[1]
            FirstWith(a) ==
                CHOOSE k \in Accepted(text) :
                    /\ parse_match(text.matches[k])[1] = a
                    /\ \A j \in Accepted(text) :
                           parse_match(text.matches[j])[1] = a => k <= j
        IN
        /\ \A i, j \in DOMAIN out : i # j => out[i].amount # out[j].amount
        /\ \A i, j \in DOMAIN out :
               i < j => out[i].confidence >= out[j].confidence
        /\ \A k \in Accepted(text) : \E i \in DOMAIN out :
               out[i].amount = parse_match(text.matches[k])[1]
        /\ \A i \in DOMAIN out :
               /\ \E k \in Accepted(text) :
                      parse_match(text.matches[k])[1] = out[i].amount
               /\ out[i] = ExtractedRevenue(
                               text.matches[FirstWith(out[i].amount)],
                               out[i].amount, text.has_screenshot)

\* Two candidates are returned and a third match, of an amount already
\* seen under a pattern of another kind and confidence, is dropped.
C21_Witness ==
    /\ res # Nothing
    /\ res[1].fn = "extract_all"
    /\ Len(res[1].out) = 2
    /\ \E j, k \in Accepted(arg[1]) :
           /\ j < k
           /\ parse_match(arg[1].matches[j]) = parse_match(arg[1].matches[k])
           /\ PATTERNS[arg[1].matches[j].pattern]
                  # PATTERNS[arg[1].matches[k].pattern]

(***************************************************************************)
(* C22.  A URL is rejected by the exclusion rule exactly when its domain   *)
(* (lower-cased, leading www. removed) is a member of the fixed exclusion  *)
(* set: such a URL is never returned as a product by extract_product_urls, *)
(* get_best_product_url or URLExtractor.extract, and a URL whose domain    *)
(* is not a member is not rejected by the rule.                            *)
(***************************************************************************)
C22_ExcludedExactlyMembers ==
    res # Nothing =>
        LET fn == res[1].fn
            out == res[1].out
        IN
        /\ fn = "extractors._analyze_url" =>
               ((out.name = Nothing /\ ~out.is_valid_product)
                   <=> DomainOf(out.url) \in EXCLUDED_DOMAINS)
        /\ fn = "extractors.extract" =>
               \A p \in out : DomainOf(p.url) \notin EXCLUDED_DOMAINS
        /\ fn = "parsers._analyze_url" =>
               ((out.product_name = Nothing /\ out.confidence = 0
                 /\ ~out.is_product_url)
                   <=> DomainOf(out.url) \in PARSER_EXCLUDED_DOMAINS)
        /\ fn = "parsers.extract_product_urls" =>
               \A i \in DOMAIN out :
                   DomainOf(out[i].url) \notin PARSER_EXCLUDED_DOMAINS
        /\ fn = "parsers.get_best_product_url" =>
               (out # Nothing =>
                   DomainOf(out[1].url) \notin PARSER_EXCLUDED_DOMAINS)

(***************************************************************************)
(* C23.  Every extracted revenue has a confidence between 0 and 1: the     *)
(* screenshot boost of RevenueExtractor (+0.1) and the context bonus of    *)
(* MRRParser (+0.1 or +0.05) are added to the base confidence and the sum  *)
(* is capped at 1.0.  Confidences are in ten-thousandths.                  *)
(***************************************************************************)
ConfidenceInRange(r) == r.confidence >= 0 /\ r.confidence <= 10000

C23_ConfidenceInUnitInterval ==
    res # Nothing =>
        LET fn == res[1].fn
            out == res[1].out
        IN
        /\ fn \in {"extract", "get_best_mrr"} =>
               (out # Nothing => ConfidenceInRange(out[1]))
        /\ fn \in {"extract_all", "parse"} =>
               \A i \in DOMAIN out : ConfidenceInRange(out[i])

\* C23 witness: a text with a screenshot keyword whose best match has base
\* confidence 0.95, so that the boosted sum 1.05 is cut to 1.0.
C23_Witness ==
    /\ res # Nothing
    /\ res[1].fn = "extract"
    /\ res[1].out # Nothing
    /\ arg[1].has_screenshot
    /\ PATTERNS[res[1].out[1].raw_match.pattern].confidence = 9500
    /\ res[1].out[1].confidence = 10000

(***************************************************************************)
(* C24.  After any sequence or interleaving of initialize, search,         *)
(* get_user_tweets and close on one manager, the adapter list holds at     *)
(* most one adapter per backend name.                                      *)
(***************************************************************************)
C24_OneAdapterPerBackend ==
    \A i, j \in DOMAIN scrapers : scrapers[i] = scrapers[j] => i = j

(***************************************************************************)
(* C25.  In every state reachable by interleaving search, get_user_tweets  *)
(* and close, the active adapter is unset or a member of the current       *)
(* adapter list; once close has returned and the calls in flight have      *)
(* ended, the manager has no active adapter.                               *)
(***************************************************************************)
C25_ActiveIsMember ==
    /\ active_scraper # None =>
           \E i \in DOMAIN scrapers : scrapers[i] = active_scraper
    /\ (/\ \A c \in Callers : calls[c].pc \in {"idle", "ended"}
        /\ ~initialized
        /\ scrapers = <<>>) => active_scraper = None

(***************************************************************************)
(* C26.  For every text, extract(text) returns nothing exactly when        *)
(* extract_all(text) is empty, and otherwise returns the same candidate    *)
(* (amount, kind, confidence) as the first element of extract_all(text).   *)
(***************************************************************************)
SameCandidate(a, b) ==
    /\ a.amount = b.amount
    /\ a.type = b.type
    /\ a.confidence = b.confidence

C26_ExtractIsHeadOfExtractAll ==
    (res # Nothing /\ res[1].fn = "extract") =>
        LET one == res[1].out
            all == extract_all(arg[1])
        IN
        /\ one = Nothing <=> all = <<>>
        /\ one # Nothing => SameCandidate(one[1], all[1])

(***************************************************************************)
(* C27.  search_multiple_queries never propagates an adapter failure: when *)
(* search raises for one query, that query is abandoned, the posts yielded *)
(* so far stay yielded, their ids stay in the seen set, and every later    *)
(* query is still run.                                                     *)
(***************************************************************************)
IsPrefix(a, b) == Len(a) <= Len(b) /\ \A i \in DOMAIN a : a[i] = b[i]

SearchFailedUnderMulti == call = "multi" /\ m_pc = "loop" /\ s_pc = "raised"

C27_FailureStaysInsideQuery ==
    /\ [](m_pc # "raised")
    /\ [](SearchFailedUnderMulti /\ qpos < MaxQueries
              => ENABLED MultiNextQuery)
    /\ [][m_pc = "loop" =>
              /\ IsPrefix(m_out, m_out')
              /\ seen_ids \subseteq seen_ids'
              /\ (SearchFailedUnderMulti /\ qpos' # qpos) =>
                     (qpos' = qpos + 1 /\ m_pc' = "loop"
                      /\ s_pc' \in {"run", "done"})]_vars

\* C27 witness: the search of the first query has raised after posts of it
\* were yielded, and a further query may follow.
C27_Witness ==
    /\ SearchFailedUnderMulti
    /\ qpos = 1
    /\ qpos < MaxQueries
    /\ m_out # <<>>
    /\ seen_ids # {}

(***************************************************************************)
(* C28.  In every stored idea record, after any sequence of save_idea and  *)
(* save_ideas calls whose ideas were scored by score_idea or carry no      *)
(* score, total_score is the sum of the four sub-scores and lies between   *)
(* 0 and 100.                                                              *)
(***************************************************************************)
C28_StoredTotalIsSum ==
    \A t \in TweetIds :
        db[t] # Nothing =>
            LET m == db[t][1] IN
            /\ m.total_score = m.traction_score + m.growth_score
                                   + m.traffic_score + m.simplicity_score
            /\ m.total_score >= 0
            /\ m.total_score <= 100

\* C28 witness: the last save was the update of a stored record by a scored
\* idea, and the record holds that idea's scores.
C28_Witness ==
    /\ last_save.saved
    /\ last_save.existed
    /\ last_save.idea.score # Nothing
    /\ LET m == db[last_save.idea.tweet_id][1] IN
       /\ m.total_score = last_save.idea.score[1].total_score
       /\ m.total_score > 0
       /\ m.score_breakdown = Some(last_save.idea.score[1].breakdown)
       /\ m.likes = last_save.idea.fields.likes

(***************************************************************************)
(* C29.  Saving an idea whose tweet id is already stored changes only the  *)
(* four engagement fields and, when the incoming total is higher, the      *)
(* score fields; the user's annotations (favourite, notes, tags) and the   *)
(* stored product, classification, replicability and text fields stay as   *)
(* they were, and no second record is created.                             *)
(***************************************************************************)
KeptColumns(m) ==
    <<m.tweet_text, m.product_name, m.category, m.replicability,
      m.is_favorited, m.user_notes, m.tags>>

ScoreColumns(m) ==
    <<m.total_score, m.traction_score, m.growth_score, m.traffic_score,
      m.simplicity_score, m.score_breakdown>>

\* The step is a save: annotations leave last_save alone and change a row.
IsSaveStep == last_save' # last_save \/ db' = db

NoAdapterInitialised ==
    /\ call \in {"search", "user"}
    /\ last_init.called
    /\ \A i \in DOMAIN ScrapersToTry(enable_scweet) :
           ScrapersToTry(enable_scweet)[i] \notin last_init.ok

C30_NothingWithoutAdapters ==
    NoAdapterInitialised =>
        /\ s_pc = "done"
        /\ s_out = <<>>
        /\ s_raised = None
        /\ ~initialized
        /\ scrapers = <<>>

\* C30 witness: a get_user_tweets call has ended on a manager with scweet
\* enabled whose three backends all failed to initialise.
C30_Witness ==
    /\ NoAdapterInitialised
    /\ call = "user"
    /\ enable_scweet
    /\ last_init.fresh
    /\ s_pc = "done"
====
